---- MODULE Spec2Model ----
(***************************************************************************)
(* Status synchronization of bedrock-vc-issuer-coordinator-storage.        *)
(*                                                                         *)
(* The model covers the two sequence-gated record stores (vcReferences,    *)
(* syncRecords) and one pass of syncCredentialStatus() as found in         *)
(* lib/sync.js (the version that takes `syncId` and `options.signal`).     *)
(*                                                                         *)
(* JavaScript runs every handler to completion: an action of this module   *)
(* is one such handler, from the event that wakes it (a call, the return   *)
(* of an awaited operation, an abort event) up to the next await of every  *)
(* promise chain it drives, microtasks included.                           *)
(*                                                                         *)
(* Outside lib/: PQueue (p-queue) is modelled by its documented behaviour: *)
(* jobs start first in first out while fewer than `concurrency` run; a job *)
(* given an aborted signal rejects without calling its task; on the abort  *)
(* event every running job rejects at once while its task stays suspended  *)
(* at its await. intervalCap (60 per second) never binds at the page sizes *)
(* explored. The database is taken as reliable; the in-process cache of    *)
(* vcReferences.get() is not modelled (reads return the stored record).    *)
(***************************************************************************)
EXTENDS Integers, Sequences, FiniteSets, TLC

\* ------------------------------------------------------------ bounds
\* longest page getStatusUpdates() returns
MaxPage == 2
\* number of updates the external status source holds for a run
MaxUpdates == 3
\* number of consecutive syncCredentialStatus() calls of a run
MaxPasses == 2
\* number of failing remote calls (credential read, status write) of a pass
MaxFaults == 1
\* largest sequence a direct caller of the stores submits
MaxSeq == 3
\* number of direct store calls of a run
MaxCalls == 4
\* updates of the pool page beyond the default concurrency
MaxWaiting == 1
\* number of status entries of a fetched credential
MaxEntries == 2
\* calls of the vcReferences API made by its concurrent clients
MaxRefCalls == 4
\* decimal digits of a terse status list index, and largest small list length
MaxDigits == 2
MaxListLength == 3
\* length of the change list of the paged status source, and its page size
ListLen == 3
PageSize == 1
MaxTaskCalls == 3

\* ------------------------------------------------- program constants
\* `options?.concurrency ?? 4`
DefaultConcurrency == 4
\* DEFAULT_TERSE_LIST_LENGTH
DefaultTerseListLength == 67108864
\* the list length and the index the repository's tests expand with
TestListLength == 131072
TestIndex == <<4, 0, 0, 0, 0, 0, 0, 0, 0, 1>>

\* ------------------------------------------------------------ values
CredIds == {"a", "b"}
\* the credentials a reference was inserted for before the first pass
Inserted == {"a"}
SyncIds == {"s1"}
\* callers of syncCredentialStatus(); each awaits a call before its next one
Callers == {"p1"}
Undefined == "undefined"
\* cursors getStatusUpdates() may return (opaque to the engine)
Cursors == {"k1", "k2"}
\* `options.concurrency`: {} when not given, {n} when given as n
ConcurrencyOptions == {{}, {1}}

NoReference == [present |-> FALSE, sequence |-> 0]
Reference(n) == [present |-> TRUE, sequence |-> n]
NoSync == [present |-> FALSE, sequence |-> 0, cursor |-> Undefined]
\* objects are sets of <<property, value>> pairs
\* the other properties of a reference as inserted, of a newReferenceFields
InsertedFields == {<<"shouldRemain", "true">>}
NewFields == {<<"newProperty", "foo">>, <<"sequence", "9">>}

VARIABLES
  refs,      \* vc-reference collection: credentialId -> reference record
  fields,    \* the properties of each reference besides credentialId, sequence
  syncs,     \* vc-reference-sync collection: sync id -> sync record
  accepted,  \* history: updates accepted per credentialId since its insert
  last,      \* history: the last direct store call and its outcome
  calls,     \* history: number of direct store calls made
  pass,      \* per call of syncCredentialStatus(): its local state
  passNo,    \* number of syncCredentialStatus() calls made
  feed,      \* number of updates getStatusUpdates() has yet to return
  zombies,   \* reference updates still in flight from units of settled passes
  lastGood,  \* history: per sync id, the cursor getStatusUpdates() returned in
             \* the last pass that returned with every unit of its page done
  matched,   \* the last _updateRemoteStatus() call made on its own: the
             \* credential's status entries, the status given, the outcome
  expanded,  \* the last expandCredentialStatus() call: its arguments, its
             \* outcome, and the outcome of the call whose result it was
             \* given, if any
  coll,      \* the vc-reference collection with its in-memory cache, and
             \* the vcReferences calls in flight, under concurrent clients
  tasks      \* the vc-issuer-coordinator-task collection, the record
             \* encryption configuration, and the last tasks call

storeVars == <<refs, fields, syncs, accepted, last, calls>>
passVars == <<pass, passNo, feed, zombies, lastGood, matched, expanded, coll,
             tasks>>
vars == <<refs, fields, syncs, accepted, last, calls, pass, passNo, feed,
          zombies, lastGood, matched, expanded, coll, tasks>>

\* ------------------------------------------------- vcReferences store
\* an insert that accepts any sequence
InsertSequenceAny(sequence) == TRUE

\* vcReferences.insert(): the `sequence !== 0` check
InsertSequenceOk(sequence) == sequence = 0

\* vcReferences.insert(): "ok", "InvalidStateError" or "DuplicateError"
InsertResult(rs, credentialId, sequence) ==
  IF ~InsertSequenceOk(sequence) THEN "InvalidStateError"
  ELSE IF rs[credentialId].present THEN "DuplicateError"
  ELSE "ok"

InsertStore(rs, credentialId, sequence) ==
  IF InsertResult(rs, credentialId, sequence) = "ok"
  THEN [rs EXCEPT ![credentialId] = Reference(sequence)]
  ELSE rs

\* an update gate that forgets the sequence (silent overwrite)
UpdateMatchesAny(rec, sequence) == rec.present

\* the updateOne() query of update(): {id, sequence: sequence - 1}
UpdateMatches(rec, sequence) == rec.present /\ rec.sequence = sequence - 1

\* vcReferences.update(): "ok" or "InvalidStateError"
UpdateResult(rs, credentialId, sequence) ==
  IF credentialId \in DOMAIN rs /\ UpdateMatches(rs[credentialId], sequence)
  THEN "ok" ELSE "InvalidStateError"

UpdateStore(rs, credentialId, sequence) ==
  IF UpdateResult(rs, credentialId, sequence) = "ok"
  THEN [rs EXCEPT ![credentialId] = Reference(sequence)]
  ELSE rs

\* vcReferences.get() / _getUncachedRecord(): the record, or not found
GetReference(rs, credentialId) ==
  IF credentialId \in DOMAIN rs THEN rs[credentialId] ELSE NoReference

\* ------------------- vcReferences over its collection and its cache
Clients == {"k1", "k2"}
\* a call's result: `sequence` is that of the record get() resolved with
NoResult == [kind |-> "none", error |-> "none", sequence |-> 0,
             useCache |-> FALSE, floor |-> 0, concurrent |-> FALSE]
\* a client between calls
IdleClient ==
  [kind |-> "idle", stage |-> "idle", credentialId |-> Undefined,
   sequence |-> 0, useCache |-> FALSE, promise |-> 0, n |-> 0, floor |-> 0,
   last |-> NoResult]
\* the promise of a _getUncachedRecord() call
NoPromise == [st |-> "none", key |-> Undefined, sequence |-> 0]
\* docs: the documents; cache: per key the promise memoized, 0 for none;
\* promises: by number of the call that made them; calls: calls made so far;
\* confirmed: history, the highest sequence an update() has returned true for
EmptyCollection ==
  [docs |-> {}, cache |-> [c \in Inserted |-> 0],
   promises |-> [j \in 1..MaxRefCalls |-> NoPromise],
   ops |-> [k \in Clients |-> IdleClient], calls |-> 0,
   confirmed |-> [c \in Inserted |-> 0]]

DocsOf(docs, credentialId) == {d \in docs : d.credentialId = credentialId}

\* a collection without the unique index
NoUniqueIndex(docs, credentialId) == TRUE

\* the unique index on `reference.credentialId`: insertOne() is accepted
UniqueIndexOk(docs, credentialId) == DocsOf(docs, credentialId) = {}

\* an update() that leaves the cache entry in place
CacheKept(cache, credentialId) == cache

\* CACHE.delete(reference.credentialId)
CacheDelete(cache, credentialId) == [cache EXCEPT ![credentialId] = 0]

\* a client's call has settled with `result`
Settle(op, result) == [IdleClient EXCEPT !.last = result]

\* --------------------------------------------------- syncRecords store
\* syncRecords.update(): "ok" or "InvalidStateError"
SyncUpdateResult(ss, sync) ==
  IF sync.id \in DOMAIN ss /\ UpdateMatches(ss[sync.id], sync.sequence)
  THEN "ok" ELSE "InvalidStateError"

SyncUpdateStore(ss, sync) ==
  IF SyncUpdateResult(ss, sync) = "ok"
  THEN [ss EXCEPT ![sync.id] = [present |-> TRUE, sequence |-> sync.sequence,
                                cursor |-> sync.cursor]]
  ELSE ss

\* an insert that creates a record for every id that has none
LazyCreateAll(ss, id) ==
  [s \in DOMAIN ss |-> IF ss[s].present THEN ss[s]
                       ELSE [present |-> TRUE, sequence |-> 0,
                             cursor |-> Undefined]]

\* _lazyCreate(): insertOne({sync: {id, sequence: 0}}); a duplicate is ignored
LazyCreateStore(ss, id) ==
  IF ss[id].present THEN ss
  ELSE [ss EXCEPT ![id] = [present |-> TRUE, sequence |-> 0,
                           cursor |-> Undefined]]

\* syncRecords.get(): "ok" or "NotFoundError"
SyncGetResult(ss, id, create) ==
  IF ss[id].present \/ create THEN "ok" ELSE "NotFoundError"

\* a get() that creates the missing record whether asked to or not
SyncGetAlwaysCreates(ss, id, create) == LazyCreateStore(ss, id)

SyncGetStore(ss, id, create) ==
  IF ~ss[id].present /\ create THEN LazyCreateStore(ss, id) ELSE ss

\* ------------------------------------------------------- task records
\* a request is an object: its <<property, value>> pairs in insertion order
Requests ==
  {<<<<"a", "1">>, <<"b", "2">>>>, <<<<"b", "2">>, <<"a", "1">>>>,
   <<<<"a", "2">>, <<"b", "2">>>>}
\* `expires` of create(): Undefined when not given
Expirations == {Undefined, "date"}
PropertyOrder == <<"a", "b">>
\* deep equality of two objects: the same properties with the same values
DeepEqual(r1, r2) ==
  {r1[i] : i \in DOMAIN r1} = {r2[i] : i \in DOMAIN r2}

RECURSIVE Join(_)
Join(parts) ==
  IF parts = <<>> THEN ""
  ELSE IF Len(parts) = 1 THEN parts[1]
  ELSE parts[1] \o "," \o Join(Tail(parts))

\* JSON.stringify(): the members in insertion order
Stringify(content) ==
  "{" \o Join([i \in DOMAIN content |-> content[i][1] \o ":" \o content[i][2]])
      \o "}"

\* canonicalize(): the members in the order of their property names
Canonicalize(content) ==
  LET has(k) == \E i \in DOMAIN content : content[i][1] = k
      names == SelectSeq(PropertyOrder, has)
      value(k) == content[CHOOSE i \in DOMAIN content : content[i][1] = k][2]
  IN "{" \o Join([n \in DOMAIN names |-> names[n] \o ":" \o value(names[n])])
         \o "}"

\* _sha256(), _hs256(): digests, taken to be free of collisions
Sha256(string) == "sha256(" \o string \o ")"
Hs256(secret, string) == "hs256(" \o secret \o "," \o string \o ")"

\* createContentId(): the value the promise it returns resolves to
CreateContentId(content, secret) ==
  [id |-> "mh:" \o (IF secret # Undefined
                     THEN Hs256(secret, Canonicalize(content))
                     ELSE Sha256(Canonicalize(content)))]

\* cfg.tasks.recordEncryption as _loadKeys() accepts it: no keys, or both
HmacKeyId == "urn:test:hmacKey"
KekId == "urn:test:kek"
EncryptionDisabled == [hmacKey |-> Undefined, kek |-> Undefined]
EncryptionEnabled == [hmacKey |-> HmacKeyId, kek |-> KekId]
RecordEncryption == {EncryptionDisabled, EncryptionEnabled}
\* HMAC_KEYS.get(id), KEKS.get(id): the key material loaded for a key id
GetHmacKey(id) == "secret:" \o id
GetKek(id) == "secret:" \o id
EncodeURIComponent(id) == IF id = HmacKeyId THEN "urn%3Atest%3AhmacKey" ELSE id

\* `const {id} = createContentId(..)`: the `id` property of the promise
\* createContentId() returned, read without awaiting it
IdOfPromise(resolved) == Undefined

\* createTaskId()
CreateTaskId(request, cfg) ==
  IF cfg.hmacKey # Undefined
  THEN "urn:hmac:" \o EncodeURIComponent(cfg.hmacKey) \o ":"
         \o IdOfPromise(CreateContentId(request, GetHmacKey(cfg.hmacKey)))
  ELSE "urn:hash:" \o IdOfPromise(CreateContentId(request, Undefined))

NON_SECRET_PROPERTIES == {"id", "sequence", "expires"}
\* a task is a record; NoTask is the task of a call that returned none
NoTask == <<>>
\* `{id, sequence: 0, request}`, with `expires` when given
NewTask(id, request, expires) ==
  IF expires = Undefined
  THEN [id |-> id, sequence |-> 0, request |-> request]
  ELSE [id |-> id, sequence |-> 0, request |-> request, expires |-> expires]

\* _mapToBuffer(): the JSON text of the secret properties
MapToBuffer(secrets) ==
  IF "request" \in DOMAIN secrets
  THEN "{request:" \o Stringify(secrets.request) \o "}"
  ELSE "{}"
\* JSON.parse() of a decrypted plaintext
JsonParse(plaintext) ==
  IF \E r \in Requests : plaintext = "{request:" \o Stringify(r) \o "}"
  THEN [request |-> CHOOSE r \in Requests :
                      plaintext = "{request:" \o Stringify(r) \o "}"]
  ELSE NoTask
\* GeneralEncrypt / generalDecrypt with a key encryption key
GeneralEncrypt(plaintext, secretKey, kekId) ==
  [kid |-> kekId, ciphertext |-> <<secretKey, plaintext>>]
GeneralDecrypt(jwe, secretKey) ==
  IF jwe.ciphertext[1] = secretKey THEN jwe.ciphertext[2] ELSE "{}"

\* encryptTaskSecrets() of a task without `encrypted`
EncryptTaskSecrets(task, cfg) ==
  IF cfg.kek = Undefined THEN task
  ELSE LET nonSecrets == [k \in DOMAIN task \cap NON_SECRET_PROPERTIES |->
                            task[k]]
           secrets == [k \in DOMAIN task \ NON_SECRET_PROPERTIES |-> task[k]]
           jwe == GeneralEncrypt(MapToBuffer(secrets), GetKek(cfg.kek), cfg.kek)
       IN nonSecrets @@ [encrypted |-> [kekId |-> cfg.kek, jwe |-> jwe]]

\* decryptTaskSecrets(): `{...task, ...secrets}` without `encrypted`
DecryptTaskSecrets(task) ==
  IF "encrypted" \notin DOMAIN task THEN task
  ELSE LET secrets == JsonParse(GeneralDecrypt(task.encrypted.jwe,
                                               GetKek(task.encrypted.kekId)))
       IN secrets @@ [k \in DOMAIN task \ {"encrypted"} |-> task[k]]

\* the task collection: the stored tasks (unique index on `task.id`), the
\* configuration, the last call, and which request each stored id was
\* created for
NoTaskCall ==
  [op |-> "none", by |-> "none", id |-> Undefined, request |-> <<>>,
   expires |-> Undefined, error |-> "none", task |-> NoTask, before |-> {}]
NoTasks ==
  [cfg |-> EncryptionDisabled, docs |-> {}, last |-> NoTaskCall,
   created |-> {}, calls |-> 0]

\* ----------------------------------------------- status update objects
GoodUpdate(c) ==
  [credentialId |-> c, newReferenceFields |-> "object",
   statusType |-> "BitstringStatusListEntry", statusPurpose |-> "revocation",
   value |-> "true", getCredentialCapability |-> "string",
   updateStatusCapability |-> "string", referenceFields |-> NewFields,
   indexAllocator |-> Undefined, reference |-> NoReference]

\* an update object without newReferenceFields
RemoteOnlyUpdate(c) ==
  [GoodUpdate(c) EXCEPT !.newReferenceFields = Undefined,
                        !.referenceFields = {}]

\* an update object whose status carries `indexAllocator`
AllocatorUpdate(c, allocator) == [GoodUpdate(c) EXCEPT !.indexAllocator = allocator]

\* an update object that carries a `reference` read earlier by the caller
EmbeddedUpdate(c, n) == [GoodUpdate(c) EXCEPT !.reference = Reference(n)]

\* the `json` of zcapClient.write() in _updateRemoteStatus(): no property of
\* the update object or of the reference record other than these is sent
RemoteWriteJson(update) ==
  [credentialId |-> update.credentialId, status |-> update.value,
   indexAllocator |-> Undefined]

\* `{...newReferenceFields, credentialId, sequence: reference.sequence + 1}`:
\* the properties of the submitted reference besides credentialId, sequence
SubmittedFields(update) ==
  {kv \in update.referenceFields : kv[1] \notin {"credentialId", "sequence"}}

\* what getStatusUpdates() may put in a page: well-formed updates, one with a
\* status type other than BitstringStatusListEntry, one without `status.value`
Descriptors ==
  {GoodUpdate(c) : c \in CredIds}
  \cup {[GoodUpdate("a") EXCEPT !.statusType = "TerseBitstringStatusListEntry"],
        [GoodUpdate("b") EXCEPT !.value = Undefined]}

Pages == UNION {[1..n -> Descriptors] : n \in 0..MaxPage}

\* _assertCapability()
AssertCapability(capability) == capability \in {"string", "object"}

\* _assertStatusUpdate(): TRUE when it does not throw
AssertStatusUpdate(update) ==
  /\ update.credentialId # Undefined
  /\ update.newReferenceFields \in {Undefined, "object"}
  /\ update.statusType = "BitstringStatusListEntry"
  /\ update.statusPurpose # Undefined
  /\ update.value \in {"true", "false"}
  /\ AssertCapability(update.getCredentialCapability)
  /\ AssertCapability(update.updateStatusCapability)

\* a page check that looks at the first update only
FirstUpdateValid(updates) ==
  updates = <<>> \/ AssertStatusUpdate(updates[1])

\* `updates.forEach(update => _assertStatusUpdate(update))` does not throw
AllUpdatesValid(updates) ==
  \A i \in DOMAIN updates : AssertStatusUpdate(updates[i])

\* `options?.concurrency ?? 4`
Concurrency(option) ==
  IF option = {} THEN DefaultConcurrency ELSE CHOOSE n \in option : TRUE

\* ------------------------------------------------ status matching
Bitstring == "BitstringStatusListEntry"
Terse == "TerseBitstringStatusListEntry"
Purposes == {"revocation", "suspension", "message"}
\* a status entry: an absent property is Undefined
NoEntry ==
  [type |-> Undefined, statusPurpose |-> Undefined,
   statusListIndex |-> Undefined]
\* the status entries a fetched credential may carry
Entries ==
  {[type |-> Bitstring, statusPurpose |-> sp, statusListIndex |-> x] :
     sp \in Purposes, x \in {"1", "2"}}
  \cup {[NoEntry EXCEPT !.type = Terse],
        [type |-> "StatusList2021Entry", statusPurpose |-> "revocation",
         statusListIndex |-> "1"]}
\* `verifiableCredential.credentialStatus` as the array _matchCredentialStatus()
\* makes of it
StatusLists == UNION {[1..n -> Entries] : n \in 1..MaxEntries}
\* `status.credentialStatus` of a status update object
StatusDescriptors ==
  {[type |-> Bitstring, statusPurpose |-> sp, statusListIndex |-> x] :
     sp \in Purposes, x \in {Undefined, "1", "2"}}

\* the callback of `allStatuses.find()`
MatchesStatus(cs, statusPurpose) ==
  \/ cs.type = Terse /\ statusPurpose \in {"revocation", "suspension"}
  \/ cs.type = Bitstring /\ cs.statusPurpose = statusPurpose

\* _matchCredentialStatus(): the first entry find() accepts, or NoEntry when
\* it throws NotFoundError
MatchCredentialStatus(allStatuses, statusPurpose) ==
  LET hits == {i \in DOMAIN allStatuses :
                 MatchesStatus(allStatuses[i], statusPurpose)}
  IN IF hits = {} THEN NoEntry
     ELSE allStatuses[CHOOSE i \in hits : \A j \in hits : i <= j]

\* _updateRemoteStatus() up to its zcapClient.write(): the error thrown
\* before the write, or the credentialStatus the write is called with
RemoteStatusOutcome(allStatuses, credentialStatus) ==
  LET match == MatchCredentialStatus(allStatuses,
                                     credentialStatus.statusPurpose)
  IN IF match = NoEntry
     THEN [error |-> "NotFoundError", wrote |-> FALSE,
           credentialStatus |-> NoEntry]
     ELSE [error |-> "none", wrote |-> TRUE, credentialStatus |-> match]

\* `status.expand` of a status update object: an absent property is Undefined
NoExpand == [type |-> Undefined, required |-> Undefined]
ExpandOptions ==
  {NoExpand} \cup {[type |-> Terse, required |-> r] :
                     r \in {Undefined, "true", "false"}}

NoMatchCall ==
  [allStatuses |-> <<>>, credentialStatus |-> NoEntry, expand |-> NoExpand,
   outcome |-> [error |-> "none", wrote |-> FALSE,
                credentialStatus |-> NoEntry]]
\* the arguments of a call that has yet to run
MatchCalls ==
  {[allStatuses |-> allStatuses, credentialStatus |-> credentialStatus,
    expand |-> expand,
    outcome |-> [error |-> "pending", wrote |-> FALSE,
                 credentialStatus |-> NoEntry]] :
     allStatuses \in StatusLists, credentialStatus \in StatusDescriptors,
     expand \in ExpandOptions}

\* ------------------------------------------------ status expansion
\* a JavaScript number that is a non-negative integer, as its decimal digits,
\* most significant first; <<>> stands for a value that is not a number
NotANumber == <<>>
SmallIndexes ==
  UNION {{d \in [1..n -> 0..9] : n > 1 => d[1] # 0} : n \in 1..MaxDigits}
\* the value of a number of few digits
RECURSIVE Value(_)
Value(digits) ==
  IF digits = <<>> THEN 0
  ELSE 10 * Value(SubSeq(digits, 1, Len(digits) - 1)) + digits[Len(digits)]

\* Math.floor(index / listLength), as its digits, and index % listLength of
\* a non-negative integer index and a positive integer listLength, by long
\* division
RECURSIVE DivMod(_, _)
DivMod(digits, listLength) ==
  IF digits = <<>> THEN [quotient |-> <<>>, remainder |-> 0]
  ELSE LET high == DivMod(SubSeq(digits, 1, Len(digits) - 1), listLength)
           n == 10 * high.remainder + digits[Len(digits)]
       IN [quotient |-> Append(high.quotient, n \div listLength),
           remainder |-> n % listLength]

\* `${number}` of a non-negative integer given by its digits
RECURSIVE Numerals(_)
Numerals(digits) ==
  IF digits = <<>> THEN ""
  ELSE ToString(Head(digits)) \o Numerals(Tail(digits))
RECURSIVE Decimal(_)
Decimal(digits) ==
  IF Len(digits) <= 1 THEN ToString(Value(digits))
  ELSE IF Head(digits) = 0 THEN Decimal(Tail(digits))
  ELSE Numerals(digits)

BaseUrl == "https://status.example/statuses/1/status-lists"
\* a status entry given to expandCredentialStatus(): an absent property is
\* Undefined (NotANumber for terseStatusListIndex)
NoExpandEntry ==
  [type |-> Undefined, statusPurpose |-> Undefined,
   statusListCredential |-> Undefined, statusListIndex |-> Undefined,
   terseStatusListBaseUrl |-> Undefined, terseStatusListIndex |-> NotANumber]
TerseEntry(baseUrl, index) ==
  [NoExpandEntry EXCEPT !.type = Terse, !.terseStatusListBaseUrl = baseUrl,
                        !.terseStatusListIndex = index]
FullEntry(statusPurpose, statusListCredential, statusListIndex) ==
  [NoExpandEntry EXCEPT !.type = Bitstring, !.statusPurpose = statusPurpose,
                        !.statusListCredential = statusListCredential,
                        !.statusListIndex = statusListIndex]
ExpandEntries ==
  {TerseEntry(BaseUrl, i) : i \in SmallIndexes \cup {TestIndex}}
  \cup {TerseEntry(Undefined, <<1>>), TerseEntry(BaseUrl, NotANumber)}
  \cup {FullEntry("revocation", Undefined, Undefined),
        FullEntry("suspension", BaseUrl \o "/suspension/0", "1")}
  \cup {[NoExpandEntry EXCEPT !.type = "StatusList2021Entry"]}
\* the `statusPurpose` and `listLength` options; Undefined takes the default
ExpandPurposes == {Undefined, "revocation", "suspension"}
ListLengths == {0, TestListLength} \cup 1..MaxListLength
\* `listLength` as a number; 0 stands for the option left out
ListLengthOr(listLength) ==
  IF listLength = 0 THEN DefaultTerseListLength ELSE listLength
StatusPurposeOr(statusPurpose) ==
  IF statusPurpose = Undefined THEN "revocation" ELSE statusPurpose

Thrown(name) == [error |-> name, value |-> NoExpandEntry]
Returned(value) == [error |-> "none", value |-> value]

\* expandCredentialStatus()
ExpandDropsListIndex(credentialStatus, statusPurpose, listLength) ==
  IF credentialStatus.type = Bitstring THEN Returned(credentialStatus)
  ELSE IF credentialStatus.type # Terse THEN Thrown("Error")
  ELSE IF credentialStatus.terseStatusListBaseUrl = Undefined
  THEN Thrown("TypeError")
  ELSE IF credentialStatus.terseStatusListIndex = NotANumber
  THEN Thrown("TypeError")
  ELSE LET dm == DivMod(credentialStatus.terseStatusListIndex,
                        ListLengthOr(listLength))
       IN Returned(FullEntry(
            StatusPurposeOr(statusPurpose),
            credentialStatus.terseStatusListBaseUrl \o "/"
              \o StatusPurposeOr(statusPurpose) \o "/0",
            ToString(dm.remainder)))
ExpandAnyType(credentialStatus, statusPurpose, listLength) ==
  IF credentialStatus.type # Terse THEN Returned(credentialStatus)
  ELSE ExpandDropsListIndex(credentialStatus, statusPurpose, listLength)
ExpandCredentialStatus(credentialStatus, statusPurpose, listLength) ==
  IF credentialStatus.type = Bitstring THEN Returned(credentialStatus)
  ELSE IF credentialStatus.type # Terse THEN Thrown("Error")
  ELSE IF credentialStatus.terseStatusListBaseUrl = Undefined
  THEN Thrown("TypeError")
  ELSE IF credentialStatus.terseStatusListIndex = NotANumber
  THEN Thrown("TypeError")
  ELSE LET dm == DivMod(credentialStatus.terseStatusListIndex,
                        ListLengthOr(listLength))
       IN Returned(FullEntry(
            StatusPurposeOr(statusPurpose),
            credentialStatus.terseStatusListBaseUrl \o "/"
              \o StatusPurposeOr(statusPurpose) \o "/"
              \o Decimal(dm.quotient),
            ToString(dm.remainder)))

NoExpandCall ==
  [credentialStatus |-> NoExpandEntry, statusPurpose |-> Undefined,
   listLength |-> 0, outcome |-> Thrown("none"), first |-> Thrown("none")]

\* ------------------------------------------------- one unit of a pass
\* st:  "idle" (the task function was never called), "fetch", "write",
\*      "update" (the await the attempt is suspended at), "done" (resolved),
\*      "failed" (rejected with the wrapped OperationError), "aborted"
\*      (rejected with AbortError)
\* job: the promise queue.add() returned: "queued", "running", "resolved",
\*      "rejected"
\* att: number of _updateStatus() calls made for the unit
\* seq: `reference.sequence` read by the attempt
\* notFound: history (a credential read of the unit failed with not-found)
\* wrote, firstFail, late: history (remote write of this attempt returned
\*      successfully; how the first attempt failed; the unit was started
\*      after some unit of the page had failed both attempts)
NewUnit ==
  [st |-> "idle", job |-> "queued", att |-> 0, seq |-> 0, wrote |-> FALSE,
   firstFail |-> "none", late |-> FALSE, notFound |-> FALSE]

InFlight(u) == u.st \in {"fetch", "write", "update"}
Settled(u) == u.st \in {"done", "failed", "aborted"}

\* _abortIfSignaled() at the top of _updateStatus(), then the fetch is issued
CallUpdateStatus(u, aborted) ==
  IF aborted
  THEN [u EXCEPT !.att = @ + 1, !.st = "aborted", !.seq = 0, !.wrote = FALSE]
  ELSE [u EXCEPT !.att = @ + 1, !.st = "fetch", !.seq = 0, !.wrote = FALSE]

\* a task that calls _updateStatus() again whenever an attempt fails
AttemptFailedRetryAlways(u, kind, aborted) ==
  IF u.att <= 2
  THEN CallUpdateStatus([u EXCEPT !.firstFail = kind], aborted)
  ELSE [u EXCEPT !.st = IF kind = "abort" THEN "aborted" ELSE "failed",
                 !.seq = 0, !.wrote = FALSE]

\* an attempt threw `kind` ("op": wrapped OperationError, "abort": AbortError):
\* `_updateStatus(..).catch(() => _updateStatus(..))` calls it once more after
\* the first attempt, whatever the error; the second rejection is the task's
AttemptFailed(u, kind, aborted) ==
  IF u.att = 1
  THEN CallUpdateStatus([u EXCEPT !.firstFail = kind], aborted)
  ELSE [u EXCEPT !.st = IF kind = "abort" THEN "aborted" ELSE "failed",
                 !.seq = 0, !.wrote = FALSE]

\* an attempt without the _abortIfSignaled() that follows the reads
FetchReturnedNoCheckpoint(u, res, reference, aborted) ==
  IF res = "notfound"
  THEN AttemptFailed([u EXCEPT !.notFound = TRUE], "op", aborted)
  ELSE IF res = "error" \/ ~reference.present
  THEN AttemptFailed(u, "op", aborted)
  ELSE IF res = "nomatch" THEN AttemptFailed(u, "op", aborted)
  ELSE [u EXCEPT !.st = "write", !.seq = reference.sequence]

\* Promise.all([_getVerifiableCredential(), vcReferences.get()]) settled;
\* res: "error" (the read failed), "notfound" (it failed with not-found:
\* wrapped like any other failure), "nomatch" (a credential without a matching
\* status entry), "match"; then _updateRemoteStatus() up to zcapClient.write()
FetchReturned(u, res, reference, aborted) ==
  IF res = "notfound"
  THEN AttemptFailed([u EXCEPT !.notFound = TRUE], "op", aborted)
  ELSE IF res = "error" \/ ~reference.present
  THEN AttemptFailed(u, "op", aborted)
  ELSE IF aborted THEN AttemptFailed(u, "abort", aborted)
  ELSE IF res = "nomatch" THEN AttemptFailed(u, "op", aborted)
  ELSE [u EXCEPT !.st = "write", !.seq = reference.sequence]

\* a unit that goes on to the local update although the remote write failed
WriteReturnedIgnoringFailure(u, ok, aborted) ==
  IF aborted THEN AttemptFailed([u EXCEPT !.wrote = ok], "abort", aborted)
  ELSE [u EXCEPT !.st = "update", !.wrote = ok]

\* zcapClient.write() settled; then vcReferences.update() is issued
WriteReturned(u, ok, aborted) ==
  IF ~ok THEN AttemptFailed(u, "op", aborted)
  ELSE IF aborted THEN AttemptFailed([u EXCEPT !.wrote = TRUE], "abort", aborted)
  ELSE [u EXCEPT !.st = "update", !.wrote = TRUE]

\* a unit that resolves whether or not its reference update was accepted
UpdateReturnedIgnoringResult(u, result, aborted) ==
  [u EXCEPT !.st = "done", !.seq = 0, !.wrote = FALSE]

\* vcReferences.update() settled
UpdateReturned(u, result, aborted) ==
  IF result = "ok" THEN [u EXCEPT !.st = "done", !.seq = 0, !.wrote = FALSE]
  ELSE AttemptFailed(u, "op", aborted)

\* ------------------------------------------------- the queue of a pass
Queued(ps) == {i \in DOMAIN ps.units : ps.units[i].job = "queued"}
Running(ps) == {i \in DOMAIN ps.units : ps.units[i].job = "running"}
Min(S) == CHOOSE x \in S : \A y \in S : x <= y

\* a queue that starts a job whenever one is waiting
AlwaysRoom(ps) == TRUE

\* PQueue: a job is started while fewer than `concurrency` are running
HasRoom(ps) == Cardinality(Running(ps)) < Concurrency(ps.concurrency)

\* `.catch(e => error = e)`: the error of job i replaces the one kept so far;
\* errorOf tells the OperationErrors of the units apart (0: an AbortError)
KeepError(ps, name, i) == [ps EXCEPT !.error = name, !.errorOf = i]

\* a count of _updateStatus() calls instead of completed jobs
SettleJobCountingAttempts(ps, i) ==
  LET u == ps.units[i] IN
  IF u.job # "running" \/ ~Settled(u) THEN ps
  ELSE IF u.st = "done"
    THEN [ps EXCEPT !.units[i].job = "resolved", !.updateCount = @ + u.att]
    ELSE KeepError([ps EXCEPT !.units[i].job = "rejected"],
                   IF u.st = "aborted" THEN "AbortError" ELSE "OperationError",
                   IF u.st = "aborted" THEN 0 ELSE i)

\* the task's promise settled while its job is running: `completed` counts
\* it, or `.catch(e => error = e)` keeps its error
SettleJob(ps, i) ==
  LET u == ps.units[i] IN
  IF u.job # "running" \/ ~Settled(u) THEN ps
  ELSE IF u.st = "done"
    THEN [ps EXCEPT !.units[i].job = "resolved", !.updateCount = @ + 1]
    ELSE KeepError([ps EXCEPT !.units[i].job = "rejected"],
                   IF u.st = "aborted" THEN "AbortError" ELSE "OperationError",
                   IF u.st = "aborted" THEN 0 ELSE i)

\* PQueue starts waiting jobs, first in first out; a job whose signal is
\* already aborted rejects before its task is called
RECURSIVE Pump(_)
Pump(ps) ==
  IF Queued(ps) = {} \/ ~HasRoom(ps) THEN ps
  ELSE LET i == Min(Queued(ps)) IN
    IF ps.aborted
    THEN Pump(KeepError([ps EXCEPT !.units[i].job = "rejected"],
                        "AbortError", 0))
    ELSE Pump([ps EXCEPT !.units[i] =
           [CallUpdateStatus(@, FALSE) EXCEPT
              !.job = "running",
              !.late = \E j \in DOMAIN ps.units : ps.units[j].st = "failed"]])

\* a pass that stores the new cursor whatever happened to its units
AfterIdleIgnoringError(ps) ==
  IF ps.aborted THEN [ps EXCEPT !.pc = "thrown", !.thrown = "AbortError"]
  ELSE [ps EXCEPT !.pc = "syncUpdate"]

\* a pass without the _abortIfSignaled() that follows queue.onIdle()
AfterIdleNoCheckpoint(ps) ==
  IF ps.error # "none" THEN [ps EXCEPT !.pc = "thrown", !.thrown = ps.error]
  ELSE [ps EXCEPT !.pc = "syncUpdate"]

\* after `await queue.onIdle()`: throw the kept error, _abortIfSignaled(),
\* else issue syncRecords.update()
AfterIdle(ps) ==
  IF ps.error # "none" THEN [ps EXCEPT !.pc = "thrown", !.thrown = ps.error]
  ELSE IF ps.aborted THEN [ps EXCEPT !.pc = "thrown", !.thrown = "AbortError"]
  ELSE [ps EXCEPT !.pc = "syncUpdate"]

\* queue.onIdle() resolves once no job is waiting and none is running
IdleCheck(ps) ==
  IF ps.pc = "queue" /\ Queued(ps) = {} /\ Running(ps) = {}
  THEN AfterIdle(ps) ELSE ps

\* history: the first unit of the page whose task rejected with its
\* OperationError (0: none yet)
NoteFailure(ps, i) ==
  IF ps.units[i].st = "failed" /\ ps.units[i].job = "running"
     /\ ps.firstFailed = 0
  THEN [ps EXCEPT !.firstFailed = i] ELSE ps

\* a queue that does not start its waiting jobs when a job settles
AfterUnitNoPump(ps, i, u) ==
  IdleCheck(SettleJob(NoteFailure([ps EXCEPT !.units[i] = u], i), i))

\* a unit's await returned and left the unit as u
AfterUnit(ps, i, u) ==
  IdleCheck(Pump(SettleJob(NoteFailure([ps EXCEPT !.units[i] = u], i), i)))

\* the signal's abort event: PQueue races every running job against it, so
\* each rejects at once (its task stays suspended at its await); waiting jobs
\* then start and reject
AbortEvent(ps) ==
  LET a == [ps EXCEPT !.aborted = TRUE, !.abortedAt = ps.pc] IN
  IF Running(ps) = {} THEN a
  ELSE IdleCheck(Pump(KeepError([a EXCEPT
         !.units = [i \in DOMAIN ps.units |->
                      IF ps.units[i].job = "running"
                      THEN [ps.units[i] EXCEPT !.job = "rejected"]
                      ELSE ps.units[i]]], "AbortError", 0)))

\* a call that always starts from the beginning of the feed
NoCursor(ps) == Undefined

\* `cursor: existingCursor`, the cursor getStatusUpdates() is called with
ExistingCursor(ps) == ps.syncRecord.cursor

\* validation, queue construction and queue.add() of every update; the
\* BedrockError 'Invalid status update object.' is "InvalidStatusUpdate" here
Enqueue(ps, updates, cursor) ==
  LET a == [ps EXCEPT !.updates = updates, !.cursor = cursor] IN
  IF ~AllUpdatesValid(updates)
  THEN [a EXCEPT !.pc = "thrown", !.thrown = "InvalidStatusUpdate"]
  ELSE IdleCheck(Pump([a EXCEPT !.pc = "queue",
                                !.units = [i \in DOMAIN updates |-> NewUnit]]))

\* the `hasMore` property of a cursor getStatusUpdates() returns: "true" on
\* k1, "false" on every other cursor
HasMore(cursor) == IF cursor = "k1" THEN "true" ELSE "false"

\* `return {updateCount}`: the object a pass resolves to
ReturnValue(ps) == [updateCount |-> ps.updateCount, hasMore |-> Undefined]

\* the sync object syncRecords.update() is called with
NewSyncKeepingCursor(ps) ==
  [id |-> ps.syncId, sequence |-> ps.syncRecord.sequence + 1,
   cursor |-> ps.syncRecord.cursor]

NewSync(ps) ==
  [id |-> ps.syncId, sequence |-> ps.syncRecord.sequence + 1,
   cursor |-> ps.cursor]

\* ------------------------------------------------------------- state
\* history: a reference record in the shape `last.before` keeps
AsStored(rec) ==
  [present |-> rec.present, sequence |-> rec.sequence, cursor |-> Undefined]

IdlePass ==
  [pc |-> "idle", syncId |-> "s1", concurrency |-> {}, aborted |-> FALSE,
   syncRecord |-> NoSync, updates |-> <<>>, cursor |-> Undefined,
   error |-> "none", thrown |-> "none", updateCount |-> 0, units |-> <<>>,
   pfnArg |-> Undefined, goodAtCall |-> Undefined, syncWrites |-> 0,
   faults |-> 0, errorOf |-> 0, firstFailed |-> 0, abortedAt |-> "none",
   ignoreCredentialNotFound |-> FALSE]

NoCall ==
  [op |-> "none", id |-> "a", sequence |-> 0, result |-> "none",
   before |-> NoSync]

\* an empty database, no call made
InitStore ==
  /\ refs = [c \in CredIds |-> NoReference]
  /\ fields = [c \in CredIds |-> {}]
  /\ syncs = [s \in SyncIds |-> NoSync]
  /\ accepted = [c \in CredIds |-> 0]
  /\ last = NoCall
  /\ calls = 0
  /\ pass = [p \in Callers |-> IdlePass]
  /\ passNo = 0
  /\ feed = MaxUpdates
  /\ zombies = {}
  /\ lastGood = [s \in SyncIds |-> Undefined]
  /\ matched = NoMatchCall
  /\ expanded = NoExpandCall
  /\ coll = EmptyCollection
  /\ tasks = NoTasks

\* --------------------------------------------- direct calls of the stores
ApiInsert(c, n) ==
  /\ calls < MaxCalls
  /\ calls' = calls + 1
  /\ refs' = InsertStore(refs, c, n)
  /\ fields' = IF InsertResult(refs, c, n) = "ok"
               THEN [fields EXCEPT ![c] = InsertedFields] ELSE fields
  /\ accepted' = IF InsertResult(refs, c, n) = "ok"
                 THEN [accepted EXCEPT ![c] = 0] ELSE accepted
  /\ last' = [op |-> "insert", id |-> c, sequence |-> n,
              result |-> InsertResult(refs, c, n), before |-> AsStored(refs[c])]
  /\ UNCHANGED <<syncs, passVars>>

ApiUpdate(c, n) ==
  /\ calls < MaxCalls
  /\ calls' = calls + 1
  /\ refs' = UpdateStore(refs, c, n)
  /\ fields' = IF UpdateResult(refs, c, n) = "ok"
               THEN [fields EXCEPT ![c] = SubmittedFields(GoodUpdate(c))]
               ELSE fields
  /\ accepted' = IF UpdateResult(refs, c, n) = "ok"
                 THEN [accepted EXCEPT ![c] = @ + 1] ELSE accepted
  /\ last' = [op |-> "update", id |-> c, sequence |-> n,
              result |-> UpdateResult(refs, c, n), before |-> AsStored(refs[c])]
  /\ UNCHANGED <<syncs, passVars>>

ApiSyncGet(s, create) ==
  /\ calls < MaxCalls
  /\ calls' = calls + 1
  /\ syncs' = SyncGetStore(syncs, s, create)
  /\ last' = [op |-> IF create THEN "syncGetCreate" ELSE "syncGet", id |-> s,
              sequence |-> 0, result |-> SyncGetResult(syncs, s, create),
              before |-> syncs[s]]
  /\ UNCHANGED <<refs, fields, accepted, passVars>>

ApiSyncUpdate(s, n, k) ==
  /\ calls < MaxCalls
  /\ calls' = calls + 1
  /\ syncs' = SyncUpdateStore(syncs, [id |-> s, sequence |-> n, cursor |-> k])
  /\ last' = [op |-> "syncUpdate", id |-> s, sequence |-> n,
              result |-> SyncUpdateResult(syncs, [id |-> s, sequence |-> n,
                                                  cursor |-> k]),
              before |-> syncs[s]]
  /\ UNCHANGED <<refs, fields, accepted, passVars>>

NextStore ==
  \/ \E c \in CredIds, n \in 0..MaxSeq : ApiInsert(c, n)
  \/ \E c \in CredIds, n \in 0..MaxSeq : ApiUpdate(c, n)
  \/ \E s \in SyncIds, create \in BOOLEAN : ApiSyncGet(s, create)
  \/ \E s \in SyncIds, n \in 0..MaxSeq, k \in Cursors : ApiSyncUpdate(s, n, k)

SpecStore == InitStore /\ [][NextStore]_vars

\* -------------------------------------------- syncCredentialStatus()
\* a page long enough to fill the default pool and leave updates waiting
PoolPage == DefaultConcurrency + MaxWaiting
PoolPages ==
  {<<>>, [i \in 1..PoolPage |-> GoodUpdate(IF i = 1 THEN "a" ELSE "b")]}

Active(ps) == ps.pc \in {"find", "create", "page", "queue", "syncUpdate"}

\* getStatusUpdates({cursor: existingCursor, limit: 100}) is called
CallPageFn(ps, good) ==
  [ps EXCEPT !.pc = "page", !.pfnArg = ExistingCursor(ps),
             !.goodAtCall = good[ps.syncId]]

\* every unit of the page resolved
AllDone(ps) == \A i \in DOMAIN ps.units : ps.units[i].st = "done"

\* history: one more remote call of the pass failed
Fault(ps, failed) == IF failed THEN [ps EXCEPT !.faults = @ + 1] ELSE ps

\* local updates still awaited by units of a pass
PendingUpdates(ps) ==
  {[credentialId |-> ps.updates[i].credentialId,
    sequence |-> ps.units[i].seq + 1,
    fields |-> SubmittedFields(ps.updates[i])] :
       i \in {j \in DOMAIN ps.units : ps.units[j].st = "update"}}

\* a database holding the inserted references (sequence 0), no sync record
Init ==
  /\ refs = [c \in CredIds |-> IF c \in Inserted
                                THEN Reference(0)
                                ELSE NoReference]
  /\ fields = [c \in CredIds |-> IF c \in Inserted THEN InsertedFields ELSE {}]
  /\ syncs = [s \in SyncIds |-> NoSync]
  /\ accepted = [c \in CredIds |-> 0]
  /\ last = NoCall
  /\ calls = 0
  /\ pass = [p \in Callers |-> IdlePass]
  /\ passNo = 0
  /\ feed = MaxUpdates
  /\ zombies = {}
  /\ lastGood = [s \in SyncIds |-> Undefined]
  /\ matched = NoMatchCall
  /\ expanded = NoExpandCall
  /\ coll = EmptyCollection
  /\ tasks = NoTasks

\* syncCredentialStatus({syncId, getStatusUpdates, options}) is called with
\* `options.ignoreCredentialNotFound`, which is not among the options read;
\* syncRecords.get({id, create: true}) issues its findOne()
StartPass(p, s, co, ignore) ==
  /\ ~Active(pass[p])
  /\ passNo' = passNo + 1
  /\ zombies' = zombies \cup PendingUpdates(pass[p])
  /\ pass' = [pass EXCEPT ![p] = [IdlePass EXCEPT
                                    !.pc = "find", !.syncId = s,
                                    !.concurrency = co,
                                    !.ignoreCredentialNotFound = ignore]]
  /\ UNCHANGED <<storeVars, feed, lastGood, matched, expanded, coll, tasks>>

\* the call without that option
PassStart(p, s, co) == StartPass(p, s, co, FALSE)

\* findOne() returned: the record, or _lazyCreate() issues its insertOne()
SyncFound(p) ==
  /\ pass[p].pc = "find"
  /\ pass' = [pass EXCEPT ![p] =
       IF syncs[pass[p].syncId].present
       THEN CallPageFn([pass[p] EXCEPT !.syncRecord = syncs[pass[p].syncId]],
                       lastGood)
       ELSE [pass[p] EXCEPT !.pc = "create"]]
  /\ UNCHANGED <<storeVars, passNo, feed, zombies, lastGood, matched, expanded, coll, tasks>>

\* insertOne() returned: the new record, or on a duplicate get({id}) again
SyncCreated(p) ==
  /\ pass[p].pc = "create"
  /\ syncs' = LazyCreateStore(syncs, pass[p].syncId)
  /\ pass' = [pass EXCEPT ![p] =
       IF syncs[pass[p].syncId].present
       THEN [pass[p] EXCEPT !.pc = "find"]
       ELSE CallPageFn([pass[p] EXCEPT
                         !.syncRecord = [present |-> TRUE, sequence |-> 0,
                                         cursor |-> Undefined]], lastGood)]
  /\ UNCHANGED <<refs, fields, accepted, last, calls, passNo, feed, zombies,
                 lastGood, matched, expanded, coll, tasks>>

\* getStatusUpdates({cursor, limit}) returned {updates, cursor}
PageReturned(p, updates, cursor) ==
  /\ pass[p].pc = "page"
  /\ Len(updates) <= feed
  /\ feed' = feed - Len(updates)
  /\ pass' = [pass EXCEPT ![p] = Enqueue(pass[p], updates, cursor)]
  /\ UNCHANGED <<storeVars, passNo, zombies, lastGood, matched, expanded, coll, tasks>>

\* the credential read and the reference read of unit i settled
UnitFetchReturned(p, i, res) ==
  /\ i \in DOMAIN pass[p].units
  /\ pass[p].units[i].st = "fetch"
  /\ res # "match" => pass[p].faults < MaxFaults
  /\ pass' = [pass EXCEPT ![p] =
       AfterUnit(Fault(pass[p], res # "match"), i,
                 FetchReturned(pass[p].units[i], res,
                    GetReference(refs, pass[p].updates[i].credentialId),
                    pass[p].aborted))]
  /\ UNCHANGED <<storeVars, passNo, feed, zombies, lastGood, matched, expanded, coll, tasks>>

\* the remote status write of unit i settled
UnitWriteReturned(p, i, ok) ==
  /\ i \in DOMAIN pass[p].units
  /\ pass[p].units[i].st = "write"
  /\ ~ok => pass[p].faults < MaxFaults
  /\ pass' = [pass EXCEPT ![p] =
       AfterUnit(Fault(pass[p], ~ok), i,
                 WriteReturned(pass[p].units[i], ok, pass[p].aborted))]
  /\ UNCHANGED <<storeVars, passNo, feed, zombies, lastGood, matched, expanded, coll, tasks>>

\* vcReferences.update() of unit i settled
UnitUpdateReturned(p, i) ==
  /\ i \in DOMAIN pass[p].units
  /\ pass[p].units[i].st = "update"
  /\ LET c == pass[p].updates[i].credentialId
         n == pass[p].units[i].seq + 1
     IN /\ refs' = UpdateStore(refs, c, n)
        /\ fields' = IF UpdateResult(refs, c, n) = "ok"
                     THEN [fields EXCEPT
                             ![c] = SubmittedFields(pass[p].updates[i])]
                     ELSE fields
        /\ accepted' = IF UpdateResult(refs, c, n) = "ok"
                       THEN [accepted EXCEPT ![c] = @ + 1] ELSE accepted
        /\ pass' = [pass EXCEPT ![p] =
             AfterUnit(pass[p], i, UpdateReturned(pass[p].units[i],
                                            UpdateResult(refs, c, n),
                                            pass[p].aborted))]
  /\ UNCHANGED <<syncs, last, calls, passNo, feed, zombies, lastGood, matched, expanded, coll, tasks>>

\* vcReferences.update() of a unit of an earlier, aborted pass settled
ZombieUpdateReturned(z) ==
  /\ z \in zombies
  /\ zombies' = zombies \ {z}
  /\ refs' = UpdateStore(refs, z.credentialId, z.sequence)
  /\ fields' = IF UpdateResult(refs, z.credentialId, z.sequence) = "ok"
               THEN [fields EXCEPT ![z.credentialId] = z.fields]
               ELSE fields
  /\ accepted' = IF UpdateResult(refs, z.credentialId, z.sequence) = "ok"
                 THEN [accepted EXCEPT ![z.credentialId] = @ + 1]
                 ELSE accepted
  /\ UNCHANGED <<syncs, last, calls, pass, passNo, feed, lastGood, matched, expanded, coll, tasks>>

\* the caller aborts `options.signal`
Abort(p) ==
  /\ Active(pass[p])
  /\ ~pass[p].aborted
  /\ pass' = [pass EXCEPT ![p] = AbortEvent(pass[p])]
  /\ UNCHANGED <<storeVars, passNo, feed, zombies, lastGood, matched, expanded, coll, tasks>>

\* syncRecords.update() settled: return {updateCount}, or throw its error
SyncUpdateReturned(p) ==
  /\ pass[p].pc = "syncUpdate"
  /\ LET sync == NewSync(pass[p])
         ok == SyncUpdateResult(syncs, sync) = "ok"
     IN /\ syncs' = SyncUpdateStore(syncs, sync)
        /\ pass' = [pass EXCEPT ![p] =
             IF ok THEN [pass[p] EXCEPT !.pc = "returned", !.syncWrites = @ + 1]
             ELSE [pass[p] EXCEPT !.pc = "thrown", !.thrown = "InvalidStateError"]]
        /\ lastGood' = IF ok /\ AllDone(pass[p])
                       THEN [lastGood EXCEPT ![sync.id] = pass[p].cursor]
                       ELSE lastGood
  /\ UNCHANGED <<refs, fields, accepted, last, calls, passNo, feed, zombies, matched, expanded, coll, tasks>>

Next ==
  \/ \E p \in Callers, s \in SyncIds, co \in ConcurrencyOptions :
       passNo < MaxPasses /\ PassStart(p, s, co)
  \/ \E p \in Callers : SyncFound(p)
  \/ \E p \in Callers : SyncCreated(p)
  \/ \E p \in Callers, updates \in Pages, cursor \in Cursors :
       PageReturned(p, updates, cursor)
  \/ \E p \in Callers, i \in 1..MaxPage, res \in {"error", "nomatch", "match"} :
       UnitFetchReturned(p, i, res)
  \/ \E p \in Callers, i \in 1..MaxPage, ok \in BOOLEAN :
       UnitWriteReturned(p, i, ok)
  \/ \E p \in Callers, i \in 1..MaxPage : UnitUpdateReturned(p, i)
  \/ \E z \in zombies : ZombieUpdateReturned(z)
  \/ \E p \in Callers : Abort(p)
  \/ \E p \in Callers : SyncUpdateReturned(p)

Spec == Init /\ [][Next]_vars

\* passes next to direct syncRecords.get() calls
LazyPages == {<<>>} \cup {<<GoodUpdate(c)>> : c \in Inserted}

NextLazy ==
  \/ \E p \in Callers, s \in SyncIds, co \in ConcurrencyOptions :
       passNo < MaxPasses /\ PassStart(p, s, co)
  \/ \E p \in Callers : SyncFound(p)
  \/ \E p \in Callers : SyncCreated(p)
  \/ \E p \in Callers, updates \in LazyPages, cursor \in Cursors :
       PageReturned(p, updates, cursor)
  \/ \E p \in Callers, i \in 1..MaxPage, res \in {"error", "nomatch", "match"} :
       UnitFetchReturned(p, i, res)
  \/ \E p \in Callers, i \in 1..MaxPage, ok \in BOOLEAN :
       UnitWriteReturned(p, i, ok)
  \/ \E p \in Callers, i \in 1..MaxPage : UnitUpdateReturned(p, i)
  \/ \E z \in zombies : ZombieUpdateReturned(z)
  \/ \E p \in Callers : Abort(p)
  \/ \E p \in Callers : SyncUpdateReturned(p)
  \/ \E s \in SyncIds, create \in BOOLEAN : calls = 0 /\ ApiSyncGet(s, create)

SpecLazy == Init /\ [][NextLazy]_vars

\* passes with and without ignoreCredentialNotFound over credentials that
\* the credential service may not have
NextIgnore ==
  \/ \E p \in Callers, s \in SyncIds, co \in ConcurrencyOptions,
        ignore \in BOOLEAN :
       passNo < MaxPasses /\ StartPass(p, s, co, ignore)
  \/ \E p \in Callers : SyncFound(p)
  \/ \E p \in Callers : SyncCreated(p)
  \/ \E p \in Callers, updates \in LazyPages, cursor \in Cursors :
       PageReturned(p, updates, cursor)
  \/ \E p \in Callers, i \in 1..MaxPage, res \in {"notfound", "match"} :
       UnitFetchReturned(p, i, res)
  \/ \E p \in Callers, i \in 1..MaxPage, ok \in BOOLEAN :
       UnitWriteReturned(p, i, ok)
  \/ \E p \in Callers, i \in 1..MaxPage : UnitUpdateReturned(p, i)
  \/ \E z \in zombies : ZombieUpdateReturned(z)
  \/ \E p \in Callers : Abort(p)
  \/ \E p \in Callers : SyncUpdateReturned(p)

SpecIgnore == Init /\ [][NextIgnore]_vars

\* a status source holding one page of PoolPage updates
InitPool ==
  /\ refs = [c \in CredIds |-> IF c \in Inserted
                                THEN Reference(0)
                                ELSE NoReference]
  /\ fields = [c \in CredIds |-> IF c \in Inserted THEN InsertedFields ELSE {}]
  /\ syncs = [s \in SyncIds |-> NoSync]
  /\ accepted = [c \in CredIds |-> 0]
  /\ last = NoCall
  /\ calls = 0
  /\ pass = [p \in Callers |-> IdlePass]
  /\ passNo = 0
  /\ feed = PoolPage
  /\ zombies = {}
  /\ lastGood = [s \in SyncIds |-> Undefined]
  /\ matched = NoMatchCall
  /\ expanded = NoExpandCall
  /\ coll = EmptyCollection
  /\ tasks = NoTasks

NextPool ==
  \/ \E p \in Callers, s \in SyncIds, co \in ConcurrencyOptions :
       passNo < MaxPasses /\ PassStart(p, s, co)
  \/ \E p \in Callers : SyncFound(p)
  \/ \E p \in Callers : SyncCreated(p)
  \/ \E p \in Callers, updates \in PoolPages, cursor \in Cursors :
       PageReturned(p, updates, cursor)
  \/ \E p \in Callers, i \in 1..PoolPage, res \in {"error", "nomatch", "match"} :
       UnitFetchReturned(p, i, res)
  \/ \E p \in Callers, i \in 1..PoolPage, ok \in BOOLEAN :
       UnitWriteReturned(p, i, ok)
  \/ \E p \in Callers, i \in 1..PoolPage : UnitUpdateReturned(p, i)
  \/ \E z \in zombies : ZombieUpdateReturned(z)
  \/ \E p \in Callers : Abort(p)
  \/ \E p \in Callers : SyncUpdateReturned(p)

SpecPool == InitPool /\ [][NextPool]_vars

\* ----------------------------------- _updateRemoteStatus() on its own
\* nothing stored, no pass begun
InitIdle ==
  /\ refs = [c \in CredIds |-> NoReference]
  /\ fields = [c \in CredIds |-> {}]
  /\ syncs = [s \in SyncIds |-> NoSync]
  /\ accepted = [c \in CredIds |-> 0]
  /\ last = NoCall
  /\ calls = 0
  /\ pass = [p \in Callers |-> IdlePass]
  /\ passNo = 0
  /\ feed = MaxUpdates
  /\ zombies = {}
  /\ lastGood = [s \in SyncIds |-> Undefined]

InitMatch ==
  /\ InitIdle
  /\ matched \in MatchCalls
  /\ expanded = NoExpandCall
  /\ coll = EmptyCollection
  /\ tasks = NoTasks

\* the call; `status.expand` is not read
UpdateRemoteStatus ==
  /\ matched.outcome.error = "pending"
  /\ matched' =
       [matched EXCEPT !.outcome =
          RemoteStatusOutcome(matched.allStatuses, matched.credentialStatus)]
  /\ UNCHANGED <<storeVars, pass, passNo, feed, zombies, lastGood, expanded, coll, tasks>>

NextMatch == UpdateRemoteStatus

SpecMatch == InitMatch /\ [][NextMatch]_vars

\* -------------------------------- expandCredentialStatus() on its own
\* the arguments of a call that has yet to run
Pending == Thrown("pending")
ExpandCalls ==
  {[credentialStatus |-> credentialStatus, statusPurpose |-> statusPurpose,
    listLength |-> listLength, outcome |-> Pending, first |-> Thrown("none")] :
     credentialStatus \in ExpandEntries, statusPurpose \in ExpandPurposes,
     listLength \in ListLengths}

InitExpand ==
  /\ InitIdle
  /\ matched = NoMatchCall
  /\ expanded \in ExpandCalls
  /\ coll = EmptyCollection
  /\ tasks = NoTasks

\* the call with an entry of the caller's
Expand ==
  /\ expanded.outcome = Pending
  /\ expanded' =
       [expanded EXCEPT !.outcome =
          ExpandCredentialStatus(expanded.credentialStatus,
                                 expanded.statusPurpose, expanded.listLength)]
  /\ UNCHANGED <<storeVars, pass, passNo, feed, zombies, lastGood, matched, coll, tasks>>

\* a call with the entry the last call returned
ExpandAgain(statusPurpose, listLength) ==
  /\ expanded.outcome.error = "none"
  /\ expanded.outcome.value # NoExpandEntry
  /\ expanded.first = Thrown("none")
  /\ expanded' =
       [credentialStatus |-> expanded.outcome.value,
        statusPurpose |-> statusPurpose, listLength |-> listLength,
        outcome |-> ExpandCredentialStatus(expanded.outcome.value,
                                           statusPurpose, listLength),
        first |-> expanded.outcome]
  /\ UNCHANGED <<storeVars, pass, passNo, feed, zombies, lastGood, matched, coll, tasks>>

NextExpand ==
  \/ Expand
  \/ \E statusPurpose \in ExpandPurposes, listLength \in ListLengths :
       ExpandAgain(statusPurpose, listLength)

SpecExpand == InitExpand /\ [][NextExpand]_vars

\* ------------------------ a status source that names index allocators
Allocators == {"urn:correct", "urn:incorrect"}
\* the `indexAllocator` property of a stored reference
RecordAllocator(stored) ==
  IF \E kv \in stored : kv[1] = "indexAllocator"
  THEN (CHOOSE kv \in stored : kv[1] = "indexAllocator")[2]
  ELSE Undefined

\* pages of at most one update
AllocatorPages ==
  UNION {[1..n -> {AllocatorUpdate(c, al) :
                     c \in Inserted, al \in Allocators \cup {Undefined}}] :
           n \in 0..1}

\* the inserted references were stored with or without `indexAllocator`
InitAllocator ==
  /\ refs = [c \in CredIds |-> IF c \in Inserted
                                THEN Reference(0)
                                ELSE NoReference]
  /\ \E stored \in {InsertedFields,
                     InsertedFields \cup {<<"indexAllocator", "urn:correct">>}} :
       fields = [c \in CredIds |-> IF c \in Inserted THEN stored ELSE {}]
  /\ syncs = [s \in SyncIds |-> NoSync]
  /\ accepted = [c \in CredIds |-> 0]
  /\ last = NoCall
  /\ calls = 0
  /\ pass = [p \in Callers |-> IdlePass]
  /\ passNo = 0
  /\ feed = MaxUpdates
  /\ zombies = {}
  /\ lastGood = [s \in SyncIds |-> Undefined]
  /\ matched = NoMatchCall
  /\ expanded = NoExpandCall
  /\ coll = EmptyCollection
  /\ tasks = NoTasks

NextAllocator ==
  \/ \E p \in Callers, s \in SyncIds, co \in ConcurrencyOptions :
       passNo < MaxPasses /\ PassStart(p, s, co)
  \/ \E p \in Callers : SyncFound(p)
  \/ \E p \in Callers : SyncCreated(p)
  \/ \E p \in Callers, updates \in AllocatorPages, cursor \in Cursors :
       PageReturned(p, updates, cursor)
  \/ \E p \in Callers, i \in 1..MaxPage, res \in {"error", "nomatch", "match"} :
       UnitFetchReturned(p, i, res)
  \/ \E p \in Callers, i \in 1..MaxPage, ok \in BOOLEAN :
       UnitWriteReturned(p, i, ok)
  \/ \E p \in Callers, i \in 1..MaxPage : UnitUpdateReturned(p, i)
  \/ \E z \in zombies : ZombieUpdateReturned(z)
  \/ \E p \in Callers : Abort(p)
  \/ \E p \in Callers : SyncUpdateReturned(p)
  \/ \E c \in Inserted, n \in 0..MaxSeq : calls = 0 /\ ApiUpdate(c, n)

SpecAllocator == InitAllocator /\ [][NextAllocator]_vars

\* ---------------- a status source that embeds references it read earlier
\* pages of at most one update
EmbeddedPages ==
  UNION {[1..n -> {EmbeddedUpdate(c, e) : c \in Inserted, e \in 0..1}] :
           n \in 0..1}

NextEmbedded ==
  \/ \E p \in Callers, s \in SyncIds, co \in ConcurrencyOptions :
       passNo < MaxPasses /\ PassStart(p, s, co)
  \/ \E p \in Callers : SyncFound(p)
  \/ \E p \in Callers : SyncCreated(p)
  \/ \E p \in Callers, updates \in EmbeddedPages, cursor \in Cursors :
       PageReturned(p, updates, cursor)
  \/ \E p \in Callers, i \in 1..MaxPage, res \in {"error", "nomatch", "match"} :
       UnitFetchReturned(p, i, res)
  \/ \E p \in Callers, i \in 1..MaxPage, ok \in BOOLEAN :
       UnitWriteReturned(p, i, ok)
  \/ \E p \in Callers, i \in 1..MaxPage : UnitUpdateReturned(p, i)
  \/ \E z \in zombies : ZombieUpdateReturned(z)
  \/ \E p \in Callers : Abort(p)
  \/ \E p \in Callers : SyncUpdateReturned(p)
  \/ \E c \in Inserted, n \in 0..MaxSeq : calls = 0 /\ ApiUpdate(c, n)

SpecEmbedded == Init /\ [][NextEmbedded]_vars

\* ---------------------------- concurrent clients of vcReferences
CollUnchanged ==
  UNCHANGED <<storeVars, pass, passNo, feed, zombies, lastGood, matched,
              expanded, tasks>>

\* insert(): the checks before insertOne()
RefInsertCall(k, c, n) ==
  /\ coll.ops[k].kind = "idle"
  /\ coll.calls < MaxRefCalls
  /\ coll' = [coll EXCEPT
       !.calls = @ + 1,
       !.ops[k] = IF InsertSequenceOk(n)
                  THEN [@ EXCEPT !.kind = "insert", !.stage = "db",
                                 !.credentialId = c, !.sequence = n]
                  ELSE Settle(@, [NoResult EXCEPT
                                    !.kind = "insert",
                                    !.error = "InvalidStateError"])]
  /\ CollUnchanged

\* insertOne() is run by the database, and insert() returns or throws
RefInsertOne(k) ==
  /\ coll.ops[k].kind = "insert"
  /\ coll.ops[k].stage = "db"
  /\ LET c == coll.ops[k].credentialId
         ok == UniqueIndexOk(coll.docs, c)
         others == \E o \in Clients \ {k} :
                     /\ coll.ops[o].kind = "insert"
                     /\ coll.ops[o].stage = "db"
                     /\ coll.ops[o].credentialId = c
     IN coll' = [coll EXCEPT
          !.docs = IF ok
                   THEN @ \cup {[id |-> coll.calls, credentialId |-> c,
                                 sequence |-> coll.ops[k].sequence]}
                   ELSE @,
          !.ops[k] = Settle(@, [NoResult EXCEPT
                                  !.kind = "insert",
                                  !.error = IF ok THEN "none"
                                            ELSE "DuplicateError",
                                  !.concurrent = others])]
  /\ CollUnchanged

\* update(): up to updateOne()
RefUpdateCall(k, c, n) ==
  /\ coll.ops[k].kind = "idle"
  /\ coll.calls < MaxRefCalls
  /\ coll' = [coll EXCEPT
       !.calls = @ + 1,
       !.ops[k] = [@ EXCEPT !.kind = "update", !.stage = "db",
                            !.credentialId = c, !.sequence = n]]
  /\ CollUnchanged

\* updateOne() is run by the database: a document matching the query
\* {credentialId, sequence: sequence - 1} is replaced, or none matches
RefUpdateOne(k) ==
  /\ coll.ops[k].kind = "update"
  /\ coll.ops[k].stage = "db"
  /\ LET c == coll.ops[k].credentialId
         n == coll.ops[k].sequence
         hits == {d \in DocsOf(coll.docs, c) : d.sequence = n - 1}
     IN \/ /\ hits = {}
           /\ coll' = [coll EXCEPT !.ops[k].stage = "reply", !.ops[k].n = 0]
        \/ \E d \in hits :
             coll' = [coll EXCEPT
               !.docs = (@ \ {d}) \cup {[d EXCEPT !.sequence = n]},
               !.ops[k].stage = "reply", !.ops[k].n = 1]
  /\ CollUnchanged

\* update() after updateOne(): `result.result.n > 0`, CACHE.delete(), return
RefUpdateReply(k) ==
  /\ coll.ops[k].kind = "update"
  /\ coll.ops[k].stage = "reply"
  /\ LET c == coll.ops[k].credentialId
         n == coll.ops[k].sequence
     IN coll' =
          IF coll.ops[k].n > 0
          THEN [coll EXCEPT
                 !.cache = CacheDelete(@, c),
                 !.confirmed[c] = IF n > @ THEN n ELSE @,
                 !.ops[k] = Settle(@, [NoResult EXCEPT !.kind = "update",
                                                       !.sequence = n])]
          ELSE [coll EXCEPT
                 !.ops[k] = Settle(@, [NoResult EXCEPT
                                         !.kind = "update",
                                         !.error = "InvalidStateError"])]
  /\ CollUnchanged

\* get(): CACHE.memoize() returns the promise in the cache, or calls
\* _getUncachedRecord() and puts its promise in the cache; without the cache
\* _getUncachedRecord() is called directly
RefGetCall(k, c, useCache) ==
  /\ coll.ops[k].kind = "idle"
  /\ coll.calls < MaxRefCalls
  /\ LET hit == useCache /\ coll.cache[c] # 0
         j == coll.calls + 1
     IN coll' = [coll EXCEPT
          !.calls = @ + 1,
          !.promises[j] = IF hit THEN @
                          ELSE [st |-> "pending", key |-> c, sequence |-> 0],
          !.cache[c] = IF useCache /\ ~hit THEN j ELSE @,
          !.ops[k] = [@ EXCEPT !.kind = "get", !.stage = "await",
                               !.credentialId = c, !.useCache = useCache,
                               !.promise = IF hit THEN coll.cache[c] ELSE j,
                               !.floor = coll.confirmed[c]]]
  /\ CollUnchanged

\* findOne() of _getUncachedRecord() is run by the database; a rejected
\* promise is dropped from the cache by memoize()
RefFindOne(j) ==
  /\ coll.promises[j].st = "pending"
  /\ LET c == coll.promises[j].key
     IN \/ /\ DocsOf(coll.docs, c) = {}
           /\ coll' = [coll EXCEPT
                !.promises[j].st = "rejected",
                !.cache[c] = IF @ = j THEN 0 ELSE @]
        \/ \E d \in DocsOf(coll.docs, c) :
             coll' = [coll EXCEPT !.promises[j].st = "resolved",
                                  !.promises[j].sequence = d.sequence]
  /\ CollUnchanged

\* get() returns the record its promise resolved with, or throws
RefGetReturn(k) ==
  /\ coll.ops[k].kind = "get"
  /\ coll.promises[coll.ops[k].promise].st \in {"resolved", "rejected"}
  /\ LET pr == coll.promises[coll.ops[k].promise]
     IN coll' = [coll EXCEPT
          !.ops[k] = Settle(@, [NoResult EXCEPT
                       !.kind = "get",
                       !.error = IF pr.st = "resolved" THEN "none"
                                 ELSE "NotFoundError",
                       !.sequence = pr.sequence,
                       !.useCache = coll.ops[k].useCache,
                       !.floor = coll.ops[k].floor])]
  /\ CollUnchanged

NextColl ==
  \/ \E k \in Clients, c \in Inserted, n \in 0..1 : RefInsertCall(k, c, n)
  \/ \E k \in Clients : RefInsertOne(k)
  \/ \E k \in Clients, c \in Inserted, n \in 1..MaxSeq : RefUpdateCall(k, c, n)
  \/ \E k \in Clients : RefUpdateOne(k)
  \/ \E k \in Clients : RefUpdateReply(k)
  \/ \E k \in Clients, c \in Inserted, useCache \in BOOLEAN :
       RefGetCall(k, c, useCache)
  \/ \E j \in 1..MaxRefCalls : RefFindOne(j)
  \/ \E k \in Clients : RefGetReturn(k)

SpecColl == InitStore /\ [][NextColl]_vars

\* ------------------------------------------ a paged status source
\* getStatusUpdates() of the tests: a fixed list of changes, the cursor holds
\* the index of the next one (undefined: 0), PageSize changes per call
ChangeList == [i \in 1..ListLen |-> GoodUpdate("a")]
CursorNames == <<"k1", "k2", "k3", "k4", "k5">>
CursorIndex(cursor) ==
  IF cursor = Undefined THEN 0
  ELSE CHOOSE i \in DOMAIN CursorNames : CursorNames[i] = cursor
PagedEnd(cursor) ==
  IF CursorIndex(cursor) + PageSize < ListLen
  THEN CursorIndex(cursor) + PageSize ELSE ListLen
PagedUpdates(cursor) ==
  [i \in 1..(PagedEnd(cursor) - CursorIndex(cursor)) |->
     ChangeList[CursorIndex(cursor) + i]]
PagedCursor(cursor) == CursorNames[PagedEnd(cursor)]
\* enough calls to page through the list, one more, and one that fails
PagedPasses == ListLen + 2

InitPaged ==
  /\ refs = [c \in CredIds |-> IF c \in Inserted
                                THEN Reference(0)
                                ELSE NoReference]
  /\ fields = [c \in CredIds |-> IF c \in Inserted THEN InsertedFields ELSE {}]
  /\ syncs = [s \in SyncIds |-> NoSync]
  /\ accepted = [c \in CredIds |-> 0]
  /\ last = NoCall
  /\ calls = 0
  /\ pass = [p \in Callers |-> IdlePass]
  /\ passNo = 0
  /\ feed = PagedPasses * PageSize
  /\ zombies = {}
  /\ lastGood = [s \in SyncIds |-> Undefined]
  /\ matched = NoMatchCall
  /\ expanded = NoExpandCall
  /\ coll = EmptyCollection
  /\ tasks = NoTasks

NextPaged ==
  \/ \E p \in Callers, s \in SyncIds, co \in ConcurrencyOptions :
       passNo < PagedPasses /\ PassStart(p, s, co)
  \/ \E p \in Callers : SyncFound(p)
  \/ \E p \in Callers : SyncCreated(p)
  \/ \E p \in Callers :
       PageReturned(p, PagedUpdates(pass[p].pfnArg), PagedCursor(pass[p].pfnArg))
  \/ \E p \in Callers, i \in 1..ListLen, res \in {"error", "nomatch", "match"} :
       UnitFetchReturned(p, i, res)
  \/ \E p \in Callers, i \in 1..ListLen, ok \in BOOLEAN :
       UnitWriteReturned(p, i, ok)
  \/ \E p \in Callers, i \in 1..ListLen : UnitUpdateReturned(p, i)
  \/ \E z \in zombies : ZombieUpdateReturned(z)
  \/ \E p \in Callers : Abort(p)
  \/ \E p \in Callers : SyncUpdateReturned(p)

SpecPaged == InitPaged /\ [][NextPaged]_vars

\* ------------------------- a status source with remote-only changes
\* pages of updates for the inserted credential, with and without
\* newReferenceFields
FieldPages ==
  UNION {[1..n -> {GoodUpdate(c) : c \in Inserted}
                    \cup {RemoteOnlyUpdate(c) : c \in Inserted}] :
           n \in 0..MaxPage}

\* the inserted references are fresh (sequence 0) or were updated once
InitFields ==
  /\ \E n \in 0..1 :
       /\ refs = [c \in CredIds |-> IF c \in Inserted
                                     THEN Reference(n)
                                     ELSE NoReference]
       /\ accepted = [c \in CredIds |-> IF c \in Inserted THEN n ELSE 0]
  /\ fields = [c \in CredIds |-> IF c \in Inserted THEN InsertedFields ELSE {}]
  /\ syncs = [s \in SyncIds |-> NoSync]
  /\ last = NoCall
  /\ calls = 0
  /\ pass = [p \in Callers |-> IdlePass]
  /\ passNo = 0
  /\ feed = MaxUpdates
  /\ zombies = {}
  /\ lastGood = [s \in SyncIds |-> Undefined]
  /\ matched = NoMatchCall
  /\ expanded = NoExpandCall
  /\ coll = EmptyCollection
  /\ tasks = NoTasks

NextFields ==
  \/ \E p \in Callers, s \in SyncIds, co \in ConcurrencyOptions :
       passNo < MaxPasses /\ PassStart(p, s, co)
  \/ \E p \in Callers : SyncFound(p)
  \/ \E p \in Callers : SyncCreated(p)
  \/ \E p \in Callers, updates \in FieldPages, cursor \in Cursors :
       PageReturned(p, updates, cursor)
  \/ \E p \in Callers, i \in 1..MaxPage, res \in {"error", "nomatch", "match"} :
       UnitFetchReturned(p, i, res)
  \/ \E p \in Callers, i \in 1..MaxPage, ok \in BOOLEAN :
       UnitWriteReturned(p, i, ok)
  \/ \E p \in Callers, i \in 1..MaxPage : UnitUpdateReturned(p, i)
  \/ \E z \in zombies : ZombieUpdateReturned(z)
  \/ \E p \in Callers : Abort(p)
  \/ \E p \in Callers : SyncUpdateReturned(p)

SpecFields == InitFields /\ [][NextFields]_vars

\* ------------------------------------------------------ the tasks API
InitTasks ==
  /\ InitIdle
  /\ matched = NoMatchCall
  /\ expanded = NoExpandCall
  /\ coll = EmptyCollection
  /\ \E cfg \in RecordEncryption : tasks = [NoTasks EXCEPT !.cfg = cfg]

TasksUnchanged ==
  UNCHANGED <<storeVars, pass, passNo, feed, zombies, lastGood, matched,
              expanded, coll>>

\* the id get() and remove() query with: `id`, or createTaskId() of `request`
QueryId(by, id, request) ==
  IF by = "request" THEN CreateTaskId(request, tasks.cfg) ELSE id

\* tasks.create()
TaskCreate(request, expires) ==
  /\ tasks.calls < MaxTaskCalls
  /\ LET id == CreateTaskId(request, tasks.cfg)
         task == EncryptTaskSecrets(NewTask(id, request, expires), tasks.cfg)
         call == [NoTaskCall EXCEPT !.op = "create", !.by = "request",
                                    !.request = request, !.expires = expires,
                                    !.id = id, !.before = tasks.docs]
     IN IF \E d \in tasks.docs : d.id = task.id
        THEN tasks' = [tasks EXCEPT
               !.calls = @ + 1,
               !.last = [call EXCEPT !.error = "DuplicateError"]]
        ELSE tasks' = [tasks EXCEPT
               !.calls = @ + 1,
               !.docs = @ \cup {task},
               !.created = @ \cup {<<id, request>>},
               !.last = [call EXCEPT !.task = task]]
  /\ TasksUnchanged

\* tasks.get() by `id` or by `request`
TaskGet(by, id, request) ==
  /\ tasks.calls < MaxTaskCalls
  /\ LET qid == QueryId(by, id, request)
         call == [NoTaskCall EXCEPT !.op = "get", !.by = by, !.id = qid,
                                    !.request = request,
                                    !.before = tasks.docs]
     IN IF \E d \in tasks.docs : d.id = qid
        THEN tasks' = [tasks EXCEPT
               !.calls = @ + 1,
               !.last = [call EXCEPT !.task = DecryptTaskSecrets(
                           CHOOSE d \in tasks.docs : d.id = qid)]]
        ELSE tasks' = [tasks EXCEPT
               !.calls = @ + 1,
               !.last = [call EXCEPT !.error = "NotFoundError"]]
  /\ TasksUnchanged

\* tasks.remove() by `id` or by `request`
TaskRemove(by, id, request) ==
  /\ tasks.calls < MaxTaskCalls
  /\ LET qid == QueryId(by, id, request)
     IN tasks' = [tasks EXCEPT
          !.calls = @ + 1,
          !.docs = {d \in @ : d.id # qid},
          !.created = {cr \in @ : cr[1] # qid},
          !.last = [NoTaskCall EXCEPT !.op = "remove", !.by = by, !.id = qid,
                                      !.request = request,
                                      !.before = tasks.docs]]
  /\ TasksUnchanged

\* the ids a caller may hold: those of stored tasks, and one of no task
KnownIds == {d.id : d \in tasks.docs} \cup {"urn:hash:other"}

NextTasks ==
  \/ \E request \in Requests, expires \in Expirations :
       TaskCreate(request, expires)
  \/ \E request \in Requests : TaskGet("request", Undefined, request)
  \/ \E id \in KnownIds : TaskGet("id", id, <<>>)
  \/ \E request \in Requests : TaskRemove("request", Undefined, request)
  \/ \E id \in KnownIds : TaskRemove("id", id, <<>>)

SpecTasks == InitTasks /\ [][NextTasks]_vars

\* ------------------------------- two callers of syncCredentialStatus()
TwoCallers == {"p1", "p2"}

InitConcurrent ==
  /\ refs = [c \in CredIds |-> IF c \in Inserted
                                THEN Reference(0)
                                ELSE NoReference]
  /\ fields = [c \in CredIds |-> IF c \in Inserted THEN InsertedFields ELSE {}]
  /\ syncs = [s \in SyncIds |-> NoSync]
  /\ accepted = [c \in CredIds |-> 0]
  /\ last = NoCall
  /\ calls = 0
  /\ pass = [p \in TwoCallers |-> IdlePass]
  /\ passNo = 0
  /\ feed = MaxUpdates
  /\ zombies = {}
  /\ lastGood = [s \in SyncIds |-> Undefined]
  /\ matched = NoMatchCall
  /\ expanded = NoExpandCall
  /\ coll = EmptyCollection
  /\ tasks = NoTasks

NextConcurrent ==
  \/ \E p \in TwoCallers, s \in SyncIds :
       passNo < MaxPasses /\ PassStart(p, s, {})
  \/ \E p \in TwoCallers : SyncFound(p)
  \/ \E p \in TwoCallers : SyncCreated(p)
  \/ \E p \in TwoCallers, updates \in LazyPages, cursor \in Cursors :
       PageReturned(p, updates, cursor)
  \/ \E p \in TwoCallers, res \in {"error", "match"} :
       UnitFetchReturned(p, 1, res)
  \/ \E p \in TwoCallers, ok \in BOOLEAN : UnitWriteReturned(p, 1, ok)
  \/ \E p \in TwoCallers : UnitUpdateReturned(p, 1)
  \/ \E z \in zombies : ZombieUpdateReturned(z)
  \/ \E p \in TwoCallers : Abort(p)
  \/ \E p \in TwoCallers : SyncUpdateReturned(p)

SpecConcurrent == InitConcurrent /\ [][NextConcurrent]_vars

\* ------------------- passes whose calls all return: fair scheduling
\* pages of up to three updates for one credential
LivePages ==
  UNION {[1..n -> {GoodUpdate(c) : c \in Inserted}] : n \in 0..3}

\* a pending call of a pass or of one of its units returns or fails
StepLive ==
  \/ \E p \in Callers : SyncFound(p)
  \/ \E p \in Callers : SyncCreated(p)
  \/ \E p \in Callers, updates \in LivePages, cursor \in Cursors :
       PageReturned(p, updates, cursor)
  \/ \E p \in Callers, i \in 1..3, res \in {"error", "match"} :
       UnitFetchReturned(p, i, res)
  \/ \E p \in Callers, i \in 1..3, ok \in BOOLEAN :
       UnitWriteReturned(p, i, ok)
  \/ \E p \in Callers, i \in 1..3 : UnitUpdateReturned(p, i)
  \/ \E p \in Callers : SyncUpdateReturned(p)

\* one call of syncCredentialStatus(), which the caller may abort
NextLive ==
  \/ \E p \in Callers, s \in SyncIds, co \in ConcurrencyOptions :
       passNo = 0 /\ PassStart(p, s, co)
  \/ \E p \in Callers : Abort(p)
  \/ StepLive

\* every call that is pending eventually returns or fails
SpecLive == Init /\ [][NextLive]_vars /\ WF_vars(StepLive)

\* ------------------------------------------- passes for two sync ids
TwoSyncIds == {"s1", "s2"}

InitIndependent ==
  /\ refs = [c \in CredIds |-> IF c \in Inserted
                                THEN Reference(0)
                                ELSE NoReference]
  /\ fields = [c \in CredIds |-> IF c \in Inserted THEN InsertedFields ELSE {}]
  /\ syncs = [s \in TwoSyncIds |-> NoSync]
  /\ accepted = [c \in CredIds |-> 0]
  /\ last = NoCall
  /\ calls = 0
  /\ pass = [p \in Callers |-> IdlePass]
  /\ passNo = 0
  /\ feed = MaxUpdates
  /\ zombies = {}
  /\ lastGood = [s \in TwoSyncIds |-> Undefined]
  /\ matched = NoMatchCall
  /\ expanded = NoExpandCall
  /\ coll = EmptyCollection
  /\ tasks = NoTasks

NextIndependent ==
  \/ \E p \in Callers, s \in TwoSyncIds :
       passNo < MaxPasses /\ PassStart(p, s, {})
  \/ \E p \in Callers : SyncFound(p)
  \/ \E p \in Callers : SyncCreated(p)
  \/ \E p \in Callers, updates \in LazyPages, cursor \in Cursors :
       PageReturned(p, updates, cursor)
  \/ \E p \in Callers, res \in {"error", "match"} :
       UnitFetchReturned(p, 1, res)
  \/ \E p \in Callers, ok \in BOOLEAN : UnitWriteReturned(p, 1, ok)
  \/ \E p \in Callers : UnitUpdateReturned(p, 1)
  \/ \E z \in zombies : ZombieUpdateReturned(z)
  \/ \E p \in Callers : Abort(p)
  \/ \E p \in Callers : SyncUpdateReturned(p)

SpecIndependent == InitIndependent /\ [][NextIndependent]_vars

\* ================================================================ claims
Units(p) == DOMAIN pass[p].units
SomeUnitFailed(ps) == \E i \in DOMAIN ps.units : ps.units[i].st = "failed"
SomeMalformed(updates) ==
  \E i \in DOMAIN updates : ~AssertStatusUpdate(updates[i])

\* C1: all-or-nothing cursor advance. A pass in which some unit failed both
\* attempts never issues the progress-record write, and when it has thrown the
\* stored progress record is the one the pass read (for a record the pass had
\* to create: sequence 0, no cursor); in every state the stored cursor is the
\* one getStatusUpdates() returned in a pass whose units were all done.
C1_AllOrNothing ==
  /\ \A p \in Callers :
       SomeUnitFailed(pass[p]) =>
         /\ pass[p].pc \in {"queue", "thrown"}
         /\ pass[p].syncWrites = 0
         /\ pass[p].pc = "thrown" => syncs[pass[p].syncId] = pass[p].syncRecord
  /\ \A s \in SyncIds : syncs[s].cursor = lastGood[s]

\* the second pass threw with one unit done and one failed, and left the
\* cursor of the first pass stored
C1_Witness ==
  \E p \in Callers :
    /\ passNo = 2
    /\ pass[p].pc = "thrown"
    /\ SomeUnitFailed(pass[p])
    /\ \E i \in Units(p) : pass[p].units[i].st = "done"
    /\ syncs[pass[p].syncId].sequence = 1
    /\ syncs[pass[p].syncId].cursor # Undefined
    /\ pass[p].cursor # syncs[pass[p].syncId].cursor

\* C2: a pass whose units are all done and whose signal is not aborted ends
\* by replacing the progress record once, with the sequence it read plus 1
\* and the cursor getStatusUpdates() returned to it; a pass never writes the
\* progress record twice.
C2_ProgressWrittenOnce ==
  \A p \in Callers :
    /\ pass[p].syncWrites <= 1
    /\ pass[p].pc = "returned" =>
         /\ pass[p].syncWrites = 1
         /\ AllDone(pass[p])
         /\ syncs[pass[p].syncId] =
              [present |-> TRUE, sequence |-> pass[p].syncRecord.sequence + 1,
               cursor |-> pass[p].cursor]
    /\ pass[p].pc = "thrown" =>
         \/ pass[p].aborted
         \/ SomeMalformed(pass[p].updates)
         \/ ~AllDone(pass[p])
    /\ pass[p].pc # "returned" => pass[p].syncWrites = 0

\* the second pass returned after a page of two units and stored sequence 2
C2_Witness ==
  \E p \in Callers :
    /\ passNo = 2
    /\ pass[p].pc = "returned"
    /\ Len(pass[p].units) = 2
    /\ pass[p].syncRecord.sequence = 1
    /\ pass[p].cursor # pass[p].syncRecord.cursor
    /\ syncs[pass[p].syncId].sequence = 2

\* C3: cursor round trip. The cursor a pass hands to getStatusUpdates() is the
\* one stored by the most recent pass that returned for the sync id, and
\* undefined when none has returned.
C3_CursorRoundTrip ==
  \A p \in Callers :
    pass[p].pc \in {"page", "queue", "syncUpdate", "returned", "thrown"} =>
      pass[p].pfnArg = pass[p].goodAtCall

\* the second pass called getStatusUpdates() with the cursor of the first
C3_Witness ==
  \E p \in Callers :
    /\ passNo = 2
    /\ pass[p].pc = "queue"
    /\ pass[p].pfnArg \in Cursors
    /\ pass[p].pfnArg = lastGood[pass[p].syncId]

\* C4: fail-fast validation. A pass whose page holds a malformed update has
\* thrown the validation error with no unit created (so no fetch, no remote
\* write, no reference update) and no progress-record write.
C4_FailFastValidation ==
  \A p \in Callers :
    SomeMalformed(pass[p].updates) =>
      /\ pass[p].pc = "thrown"
      /\ pass[p].thrown = "InvalidStatusUpdate"
      /\ pass[p].units = <<>>
      /\ pass[p].syncWrites = 0
      /\ pass[p].updateCount = 0
      /\ syncs[pass[p].syncId] = pass[p].syncRecord

\* a page whose first update is well-formed and whose second is not
C4_Witness ==
  \E p \in Callers :
    /\ Len(pass[p].updates) = 2
    /\ AssertStatusUpdate(pass[p].updates[1])
    /\ ~AssertStatusUpdate(pass[p].updates[2])
    /\ pass[p].pc = "thrown"

\* C5: sequence-gated update. An update of a reference record or of a sync
\* record with sequence s is accepted exactly when the stored record exists
\* with sequence s - 1; otherwise it fails with InvalidStateError and the
\* stored record is as it was.
C5_SequenceGatedUpdate ==
  LET stored == IF last.op = "update" THEN AsStored(refs[last.id])
                ELSE syncs[last.id]
  IN last.op \in {"update", "syncUpdate"} =>
       /\ last.result = "ok" <=>
            (last.before.present /\ last.before.sequence = last.sequence - 1)
       /\ last.result = "ok" =>
            stored.present /\ stored.sequence = last.sequence
       /\ last.result # "ok" =>
            last.result = "InvalidStateError" /\ stored = last.before

\* an update of an existing reference record at sequence 1 was rejected
C5_Witness ==
  /\ last.op = "update"
  /\ last.before.present
  /\ last.before.sequence = 1
  /\ last.sequence # 2
  /\ last.result = "InvalidStateError"
  /\ refs[last.id] = Reference(1)

\* C6: sequence invariant. The stored sequence of a reference record is the
\* number of updates accepted since its insert; an insert with a sequence
\* other than 0 fails with InvalidStateError and stores nothing; an accepted
\* update raises the stored sequence by exactly 1.
C6_SequenceInvariant ==
  /\ \A c \in CredIds : refs[c].present => refs[c].sequence = accepted[c]
  /\ (last.op = "insert" /\ last.sequence # 0) =>
       last.result = "InvalidStateError" /\ AsStored(refs[last.id]) = last.before
  /\ (last.op = "insert" /\ last.result = "ok") =>
       ~last.before.present /\ refs[last.id] = Reference(0)
  /\ (last.op = "update" /\ last.result = "ok") =>
       refs[last.id].sequence = last.before.sequence + 1

\* a record updated twice after its insert, then an insert with sequence 1
\* for another credential rejected
C6_Witness ==
  /\ \E c \in CredIds : refs[c] = Reference(2)
  /\ last.op = "insert"
  /\ last.sequence # 0
  /\ ~last.before.present
  /\ last.result = "InvalidStateError"
  /\ ~refs[last.id].present

\* C7: bounded concurrency. The units of a pass that have started and not yet
\* finished, a unit in its retry attempt included, never number more than
\* options.concurrency, or 4 when that option is not given.
C7_BoundedConcurrency ==
  \A p \in Callers :
    /\ Cardinality({i \in Units(p) : InFlight(pass[p].units[i])})
         <= Concurrency(pass[p].concurrency)
    /\ pass[p].concurrency = {} => Concurrency(pass[p].concurrency) = 4

\* no concurrency given: four units in flight, one of them in its retry
\* attempt, and a fifth waiting
C7_Witness ==
  \E p \in Callers :
    /\ pass[p].concurrency = {}
    /\ Cardinality({i \in Units(p) : InFlight(pass[p].units[i])}) = 4
    /\ \E i \in Units(p) : InFlight(pass[p].units[i]) /\ pass[p].units[i].att = 2
    /\ \E i \in Units(p) : pass[p].units[i].job = "queued"

\* C8: remote-then-local ordering. A unit awaiting vcReferences.update() has
\* had the remote status write of the same attempt return successfully.
C8_RemoteThenLocal ==
  \A p \in Callers : \A i \in Units(p) :
    pass[p].units[i].st = "update" => pass[p].units[i].wrote

\* a unit in its retry attempt awaits the local update after its remote write
C8_Witness ==
  \E p \in Callers : \E i \in Units(p) :
    /\ pass[p].units[i].st = "update"
    /\ pass[p].units[i].att = 2
    /\ pass[p].units[i].wrote

\* C9 as stated: one retry after a failure other than cancellation, a unit
\* failed only after two failed attempts, never more than two attempts, and
\* no _updateStatus() call after an attempt that ended by cancellation.
C9_NoRetryAfterCancellation ==
  \A p \in Callers : \A i \in Units(p) :
    LET u == pass[p].units[i] IN
    /\ u.att <= 2
    /\ u.st = "failed" => u.att = 2
    /\ u.firstFail = "op" => u.att = 2
    /\ u.firstFail # "abort"

\* C9: single retry. _updateStatus() is called at most twice per unit; once
\* more after a first attempt that failed, cancellation included; a unit is
\* failed only after two attempts that both failed otherwise than by
\* cancellation; the call that follows a cancelled attempt ends by
\* cancellation at its first checkpoint, with no fetch, write or update.
C9_SingleRetry ==
  \A p \in Callers : \A i \in Units(p) :
    LET u == pass[p].units[i] IN
    /\ u.att <= 2
    /\ u.st = "failed" => (u.att = 2 /\ u.firstFail = "op")
    /\ u.firstFail = "op" => u.att = 2
    /\ u.firstFail = "abort" => (u.att = 2 /\ u.st = "aborted")
    /\ u.firstFail = "none" => u.att <= 1

\* a unit whose first attempt ended by cancellation and was called again
C9_Witness ==
  \E p \in Callers : \E i \in Units(p) :
    /\ pass[p].units[i].firstFail = "abort"
    /\ pass[p].units[i].att = 2
    /\ pass[p].units[i].st = "aborted"

\* C10 as stated: once a unit of the page has failed after its retry, no unit
\* that had not started is started.
C10_NoStartAfterFailure ==
  \A p \in Callers : \A i \in Units(p) : ~pass[p].units[i].late

\* C11 as stated: first error wins. When units of the page failed after
\* their retry, the error the pass throws is that of the unit that failed
\* first in time.
C11_FirstErrorWins ==
  \A p \in Callers :
    (pass[p].pc = "thrown" /\ pass[p].thrown = "OperationError"
       /\ pass[p].firstFailed # 0) =>
      pass[p].errorOf = pass[p].firstFailed

\* C12: updateCount. A pass that returns gives updateCount equal to the number
\* of updates in the page getStatusUpdates() returned to it, a retried unit
\* counted once; on a list of ListLen changes paged PageSize at a time that is
\* the smaller of PageSize and the number of changes left, and 0 once the
\* list is exhausted.
C12_UpdateCount ==
  \A p \in Callers :
    /\ pass[p].updateCount =
         Cardinality({i \in Units(p) : pass[p].units[i].job = "resolved"})
    /\ pass[p].pc = "returned" =>
         /\ pass[p].updateCount = Len(pass[p].updates)
         /\ LET left == ListLen - CursorIndex(pass[p].pfnArg) IN
            pass[p].updateCount = IF PageSize < left THEN PageSize ELSE left

\* every change was applied by a returning pass, one pass failed in between,
\* and a further pass on the exhausted list returned updateCount 0
C12_Witness ==
  \E p \in Callers :
    /\ pass[p].pc = "returned"
    /\ pass[p].updateCount = 0
    /\ CursorIndex(pass[p].pfnArg) = ListLen
    /\ refs["a"].sequence = ListLen
    /\ passNo > syncs[pass[p].syncId].sequence

\* C13 as stated: hasMore. The object a pass returns carries hasMore equal to
\* the hasMore flag of the cursor getStatusUpdates() returned in that pass,
\* the cursor the pass has just stored.
C13_HasMoreReturned ==
  \A p \in Callers :
    pass[p].pc = "returned" =>
      /\ syncs[pass[p].syncId].cursor = pass[p].cursor
      /\ ReturnValue(pass[p]).hasMore = HasMore(pass[p].cursor)

\* a pass whose signal was aborted before it called syncRecords.update()
AbortedBeforeWrite(ps) == ps.aborted /\ ps.abortedAt # "syncUpdate"

\* C14 as stated: cancellation of a pass. A pass whose signal was set before
\* the progress record is written ends by throwing the AbortError itself and
\* leaves the stored progress record as it was.
C14_AlwaysAbortError ==
  \A p \in Callers :
    AbortedBeforeWrite(pass[p]) =>
      /\ pass[p].pc \notin {"syncUpdate", "returned"}
      /\ pass[p].pc = "thrown" =>
           /\ pass[p].thrown = "AbortError"
           /\ pass[p].syncWrites = 0
           /\ syncs[pass[p].syncId] = pass[p].syncRecord

\* C14: cancellation of a pass. A pass whose signal was set before it called
\* syncRecords.update() never calls it and leaves the stored progress record
\* as it was; it ends by throwing the AbortError itself, unless the page
\* getStatusUpdates() returned is malformed, and then by throwing the
\* validation error.
C14_Cancellation ==
  \A p \in Callers :
    AbortedBeforeWrite(pass[p]) =>
      /\ pass[p].pc \notin {"syncUpdate", "returned"}
      /\ pass[p].pc = "thrown" =>
           /\ pass[p].thrown = IF SomeMalformed(pass[p].updates)
                               THEN "InvalidStatusUpdate" ELSE "AbortError"
           /\ pass[p].syncWrites = 0
           /\ syncs[pass[p].syncId] = pass[p].syncRecord

\* a pass aborted while its queue ran, after one of its units was done, threw
\* the AbortError
C14_Witness ==
  \E p \in Callers :
    /\ pass[p].abortedAt = "queue"
    /\ pass[p].pc = "thrown"
    /\ pass[p].thrown = "AbortError"
    /\ \E i \in Units(p) : pass[p].units[i].job = "resolved"
    /\ syncs[pass[p].syncId] = pass[p].syncRecord

\* unit u has begun a step (the reads, the remote write or the reference
\* update, in a first or a retry attempt) on the way to v
StepBegun(u, v) == InFlight(v) /\ (v.st # u.st \/ v.att # u.att)

\* C15: cancellation checkpoints. Once the signal of a pass is set, no unit
\* of the pass begins a further step: no credential fetch or reference read,
\* no remote status write, no reference update, in a first or a retry attempt.
C15_Checkpoints ==
  [][\A p \in Callers :
       pass[p].aborted =>
         \A i \in DOMAIN pass[p].units \cap DOMAIN pass'[p].units :
           ~StepBegun(pass[p].units[i], pass'[p].units[i])]_vars

\* an aborted pass with a unit cut after an await of its first attempt and
\* another that was never started
C15_Witness ==
  \E p \in Callers :
    /\ pass[p].aborted
    /\ \E i \in Units(p) : /\ pass[p].units[i].firstFail = "abort"
                           /\ pass[p].units[i].st = "aborted"
    /\ \E i \in Units(p) : /\ pass[p].units[i].att = 0
                           /\ pass[p].units[i].job = "rejected"

\* unit i of pass p resolves in this step
UnitResolves(p, i) ==
  /\ i \in DOMAIN pass[p].units
  /\ i \in DOMAIN pass'[p].units
  /\ pass[p].units[i].st = "update"
  /\ pass'[p].units[i].st = "done"

\* C16 as stated: remote-only change. A unit whose update object carries no
\* newReferenceFields resolves after its remote status write with the
\* reference record of its credential, sequence and properties, unchanged.
C16_RemoteOnly ==
  [][\A p \in Callers : \A i \in DOMAIN pass[p].units :
       (UnitResolves(p, i) /\ pass[p].updates[i].newReferenceFields = Undefined)
         => /\ pass[p].units[i].wrote
            /\ refs'[pass[p].updates[i].credentialId] =
                 refs[pass[p].updates[i].credentialId]
            /\ fields'[pass[p].updates[i].credentialId] =
                 fields[pass[p].updates[i].credentialId]]_vars

\* the properties of `existing` overwritten by those of referenceUpdate,
\* credentialId and sequence left out
MergedFields(existing, referenceUpdate) ==
  {kv \in existing : \A nv \in referenceUpdate : nv[1] # kv[1]}
    \cup {nv \in referenceUpdate : nv[1] \notin {"credentialId", "sequence"}}

\* C17 as stated: reference merge. A unit with newReferenceFields resolves
\* with the reference record replaced by its existing properties overwritten
\* by the new ones, credentialId kept, sequence raised by 1; properties the
\* update does not mention stay, and a credentialId or sequence inside
\* newReferenceFields does not take effect.
C17_ReferenceMerge ==
  [][\A p \in Callers : \A i \in DOMAIN pass[p].units :
       (UnitResolves(p, i) /\ pass[p].updates[i].newReferenceFields # Undefined)
         => LET c == pass[p].updates[i].credentialId IN
            /\ refs'[c] = Reference(refs[c].sequence + 1)
            /\ fields'[c] =
                 MergedFields(fields[c], pass[p].updates[i].referenceFields)]_vars

\* C18 as stated: idempotent retry of a page. After passes that failed and
\* were called again on the same page until they returned, the reference
\* record the changes target has the sequence that returning passes alone
\* would have produced: one more per change of the list applied so far.
C18_IdempotentRetry ==
  \A p \in Callers :
    (pass[p].pc = "returned" /\ zombies = {}) =>
      refs["a"].sequence = CursorIndex(syncs[pass[p].syncId].cursor)

\* the entries of the last call's credential that match its status
Hits ==
  {i \in DOMAIN matched.allStatuses :
     MatchesStatus(matched.allStatuses[i],
                   matched.credentialStatus.statusPurpose)}

\* C19 as stated: exactly-one status match. With one matching entry the
\* remote write is issued with it; with none the call fails with the
\* not-found error, with two or more with the ambiguous-match error, and in
\* both failure cases no remote write is issued.
C19_ExactlyOneMatch ==
  matched.outcome.error # "pending" /\ matched.allStatuses # <<>> =>
    /\ Cardinality(Hits) = 1 =>
         /\ matched.outcome.wrote
         /\ \A i \in Hits :
              matched.outcome.credentialStatus = matched.allStatuses[i]
    /\ Cardinality(Hits) = 0 =>
         matched.outcome.error = "NotFoundError" /\ ~matched.outcome.wrote
    /\ Cardinality(Hits) >= 2 =>
         /\ matched.outcome.error \notin {"none", "NotFoundError"}
         /\ ~matched.outcome.wrote

\* every property present in the target is present and equal on the candidate
KeysMatch(candidate, target) ==
  \A k \in DOMAIN target : target[k] # Undefined => candidate[k] = target[k]

\* C20 as stated: match predicate, for a credential with one status entry
\* that needs no expansion. The entry matches, and the remote write is issued
\* with it as it is in the credential, exactly when every property present
\* in the target credentialStatus is present on it with an equal value.
C20_MatchPredicate ==
  (/\ matched.outcome.error # "pending"
   /\ Len(matched.allStatuses) = 1
   /\ matched.allStatuses[1].type # Terse) =>
    /\ matched.outcome.wrote <=>
         KeysMatch(matched.allStatuses[1], matched.credentialStatus)
    /\ matched.outcome.wrote =>
         matched.outcome.credentialStatus = matched.allStatuses[1]

\* the last call expanded a terse entry
ExpandedTerse ==
  /\ expanded.credentialStatus.type = Terse
  /\ expanded.outcome.error = "none"

\* C22: expansion arithmetic. A terse entry with index i is expanded, for
\* list length L, to statusListIndex = string of r and statusListCredential =
\* baseUrl/statusPurpose/q with q * L + r = i and 0 <= r < L; the index
\* 4000000001 gives list 59 and index "40577025" with the defaults, and list
\* 30517 and index "75777" with L = 131072.
C22_ExpansionArithmetic ==
  ExpandedTerse =>
    LET x == expanded.credentialStatus
        L == IF expanded.listLength = 0 THEN 67108864 ELSE expanded.listLength
        purpose == IF expanded.statusPurpose = Undefined THEN "revocation"
                   ELSE expanded.statusPurpose
        out == expanded.outcome.value
        prefix == x.terseStatusListBaseUrl \o "/" \o purpose \o "/"
    IN /\ out.type = Bitstring
       /\ out.statusPurpose = purpose
       /\ Len(x.terseStatusListIndex) <= MaxDigits =>
            LET i == Value(x.terseStatusListIndex)
                q == i \div L
                r == i % L
            IN /\ out.statusListIndex = ToString(r)
               /\ out.statusListCredential = prefix \o ToString(q)
               /\ q * L + r = i
               /\ 0 <= r /\ r < L
       /\ (x.terseStatusListIndex = TestIndex /\ L = 67108864) =>
            /\ out.statusListCredential = prefix \o "59"
            /\ out.statusListIndex = "40577025"
       /\ (x.terseStatusListIndex = TestIndex /\ L = 131072) =>
            /\ out.statusListCredential = prefix \o "30517"
            /\ out.statusListIndex = "75777"

C22_Witness ==
  /\ ExpandedTerse
  /\ expanded.credentialStatus.terseStatusListIndex = TestIndex
  /\ expanded.listLength = 0
  /\ expanded.statusPurpose = Undefined
  /\ expanded.outcome.value.statusListIndex = "40577025"

C21_ExpandRule ==
  (matched.outcome.error # "pending" /\ matched.expand # NoExpand) =>
    /\ (/\ matched.expand.required # "false"
        /\ \A i \in DOMAIN matched.allStatuses :
             matched.allStatuses[i].type # matched.expand.type)
         => matched.outcome.error # "none" /\ ~matched.outcome.wrote
    /\ (/\ matched.expand.required = "false"
        /\ Len(matched.allStatuses) = 1
        /\ matched.allStatuses[1].type = Bitstring
        /\ KeysMatch(matched.allStatuses[1], matched.credentialStatus))
         => /\ matched.outcome.wrote
            /\ matched.outcome.credentialStatus = matched.allStatuses[1]

\* unit i of pass p names an index allocator other than the one of the stored
\* reference of its credential
AllocatorConflict(p, i) ==
  LET update == pass[p].updates[i]
  IN /\ update.indexAllocator # Undefined
     /\ RecordAllocator(fields[update.credentialId])
          \notin {Undefined, update.indexAllocator}

\* C24 as stated: allocator stickiness in a pass. A unit whose descriptor
\* supplies an indexAllocator other than the one the reference record has
\* fails with a conflict error on every attempt: it never issues the remote
\* write or the local update, is never done, and its pass does not return.
C24_AllocatorConflict ==
  \A p \in Callers : \A i \in DOMAIN pass[p].units :
    AllocatorConflict(p, i) =>
      /\ pass[p].units[i].st \notin {"write", "update", "done"}
      /\ pass[p].pc # "returned"

\* C25 as stated: allocator resolution. The indexAllocator sent in the remote
\* status write is the reference record's when it has one, otherwise the
\* descriptor's when given, otherwise none.
C25_AllocatorResolution ==
  \A p \in Callers : \A i \in DOMAIN pass[p].units :
    pass[p].units[i].st = "write" =>
      LET update == pass[p].updates[i]
          stored == RecordAllocator(fields[update.credentialId])
      IN RemoteWriteJson(update).indexAllocator =
           IF stored # Undefined THEN stored ELSE update.indexAllocator

\* C26 as stated: sticky indexAllocator in the reference store. Once a stored
\* reference has an indexAllocator, every later step (a direct update or an
\* update made by a pass) leaves it in the record with the same value.
C26_StickyAllocator ==
  [][\A c \in CredIds :
       RecordAllocator(fields[c]) # Undefined =>
         RecordAllocator(fields'[c]) = RecordAllocator(fields[c])]_vars

\* client k's insertOne() is run in this step
InsertSettles(k) ==
  /\ coll.ops[k].kind = "insert"
  /\ coll.ops[k].stage = "db"
  /\ coll'.ops[k].kind = "idle"

\* C27: duplicate insert. An insert for a credentialId that has a stored
\* record fails with DuplicateError and leaves the collection as it is, one
\* for a credentialId without a record succeeds, and after every step there
\* is at most one record per credentialId (so of two concurrent inserts
\* exactly one succeeds).
C27_DuplicateInsert ==
  [][/\ \A k \in Clients :
          InsertSettles(k) =>
            IF DocsOf(coll.docs, coll.ops[k].credentialId) # {}
            THEN /\ coll'.ops[k].last.error = "DuplicateError"
                 /\ coll'.docs = coll.docs
            ELSE coll'.ops[k].last.error = "none"
     /\ \A c \in Inserted : Cardinality(DocsOf(coll'.docs, c)) <= 1]_vars

C27_Witness ==
  \E k \in Clients, o \in Clients :
    /\ coll.ops[k].last.kind = "insert"
    /\ coll.ops[k].last.error = "none"
    /\ coll.ops[k].last.concurrent
    /\ coll.ops[o].last.kind = "insert"
    /\ coll.ops[o].last.error = "DuplicateError"
    /\ Cardinality(coll.docs) = 1

\* an update() for c has replaced the document and has yet to return
UpdateMidway(c) ==
  \E k \in Clients :
    /\ coll.ops[k].kind = "update"
    /\ coll.ops[k].stage = "reply"
    /\ coll.ops[k].credentialId = c
    /\ coll.ops[k].n > 0

\* C28: read-your-write through the cache. A get() with the cache that was
\* called after an update() for its credentialId had returned true returns a
\* record at least as new as that update's; and while no update() is midway
\* the record memoized for a credentialId is the stored one, so a get()
\* returns the same record with and without the cache.
C28_ReadYourWrite ==
  /\ \A k \in Clients :
       LET r == coll.ops[k].last
       IN (r.kind = "get" /\ r.useCache /\ r.floor > 0) =>
            r.error = "none" /\ r.sequence >= r.floor
  /\ \A c \in Inserted :
       LET j == coll.cache[c]
       IN (j # 0 /\ ~UpdateMidway(c)) =>
            (coll.promises[j].st = "resolved" =>
               \E d \in DocsOf(coll.docs, c) :
                 d.sequence = coll.promises[j].sequence)

\* a cached get() before the update, one after it that missed the cache
C28_Witness ==
  \E k \in Clients :
    /\ coll.ops[k].last.kind = "get"
    /\ coll.ops[k].last.useCache
    /\ coll.ops[k].last.floor = 1
    /\ coll.ops[k].last.sequence = 1
    /\ coll.promises[2].st = "resolved"
    /\ coll.promises[2].sequence = 0
    /\ coll.calls = 4

FreshSync == [present |-> TRUE, sequence |-> 0, cursor |-> Undefined]

\* this step is a direct syncRecords.get() call
SyncGetStep == calls' = calls + 1 /\ last'.op \in {"syncGet", "syncGetCreate"}

\* pass p's syncRecords.get({id, create: true}) returns in this step
PassGetReturns(p) == pass[p].pc \in {"find", "create"} /\ pass'[p].pc = "page"

\* C29: lazy creation of the progress record. A get with create for an id
\* without a record stores and returns a record with sequence 0 and no
\* cursor; a get for an id with a record returns it and stores nothing; a
\* get without create for a missing id fails with NotFoundError and stores
\* nothing; the pass that created the record calls getStatusUpdates() with
\* an undefined cursor.
C29_LazyCreate ==
  [][/\ SyncGetStep =>
          IF syncs[last'.id].present
          THEN last'.result = "ok" /\ syncs' = syncs
          ELSE IF last'.op = "syncGetCreate"
          THEN last'.result = "ok"
               /\ syncs' = [syncs EXCEPT ![last'.id] = FreshSync]
          ELSE last'.result = "NotFoundError" /\ syncs' = syncs
     /\ \A p \in Callers :
          /\ PassGetReturns(p) =>
               /\ pass'[p].syncRecord = syncs'[pass[p].syncId]
               /\ IF syncs[pass[p].syncId].present
                  THEN syncs' = syncs
                  ELSE /\ syncs' = [syncs EXCEPT ![pass[p].syncId] = FreshSync]
                       /\ pass'[p].pfnArg = Undefined
          /\ (pass[p].pc = "find" /\ pass'[p].pc = "create") =>
               ~syncs[pass[p].syncId].present /\ syncs' = syncs]_vars

\* a pass created the record and a direct get without create then found it
C29_Witness ==
  /\ last.op = "syncGet"
  /\ last.result = "ok"
  /\ last.before = FreshSync
  /\ \E p \in Callers : pass[p].pc = "page" /\ pass[p].pfnArg = Undefined

\* C30 as stated: ignoreCredentialNotFound. With the option set, a unit whose
\* credential read fails with not-found does not fail: none of its attempts
\* fails and it is not retried; with the option unset the attempt fails.
C30_IgnoreNotFound ==
  \A p \in Callers : \A i \in DOMAIN pass[p].units :
    pass[p].units[i].notFound =>
      IF pass[p].ignoreCredentialNotFound
      THEN /\ pass[p].units[i].firstFail = "none"
           /\ pass[p].units[i].st # "failed"
      ELSE pass[p].units[i].firstFail = "op" \/ pass[p].units[i].st = "failed"

\* C31 as stated: caller-embedded reference. A unit whose update embeds a
\* reference does not read the reference store: the reference its attempt
\* works from is the embedded one, so its local update is accepted only while
\* the stored sequence equals the embedded one: a unit that is done has
\* stored the embedded sequence plus one.
C31_EmbeddedReference ==
  \A p \in Callers : \A i \in DOMAIN pass[p].units :
    LET update == pass[p].updates[i]
        u == pass[p].units[i]
    IN update.reference.present =>
         /\ u.st \in {"write", "update"} => u.seq = update.reference.sequence
         /\ u.st = "done" =>
              accepted[update.credentialId] >= update.reference.sequence + 1

\* the request a stored task was created for
CreatedFor(id) == {cr[2] : cr \in {c \in tasks.created : c[1] = id}}
\* the requests of the tasks stored before the last call
RequestsBefore ==
  {DecryptTaskSecrets(d).request : d \in tasks.last.before}

\* C32 as stated: task identity. A create whose request equals the request of
\* a stored task fails with DuplicateError and stores nothing; a create whose
\* request differs from that of every stored task succeeds and stores one
\* more task under an id of its own; with and without record encryption.
C32_TaskIdentity ==
  tasks.last.op = "create" =>
    IF \E r \in RequestsBefore : DeepEqual(r, tasks.last.request)
    THEN /\ tasks.last.error = "DuplicateError"
         /\ tasks.docs = tasks.last.before
    ELSE /\ tasks.last.error = "none"
         /\ Cardinality(tasks.docs) = Cardinality(tasks.last.before) + 1
         /\ \A d \in tasks.last.before : d.id # tasks.last.id

\* C33 as stated: task round trip. The record create() returns, and the record
\* a later get() returns, have task.request equal to the request the task was
\* created with, also under record encryption; decrypting an encrypted task
\* gives the task back, and id, sequence and expires are never encrypted.
C33_TaskRoundTrip ==
  /\ (tasks.last.op = "create" /\ tasks.last.error = "none") =>
       /\ "request" \in DOMAIN tasks.last.task
       /\ DeepEqual(tasks.last.task.request, tasks.last.request)
  /\ (tasks.last.op = "get" /\ tasks.last.error = "none") =>
       /\ "request" \in DOMAIN tasks.last.task
       /\ \E r \in CreatedFor(tasks.last.id) :
            DeepEqual(tasks.last.task.request, r)
  /\ \A r \in Requests, e \in Expirations :
       LET task == NewTask(CreateTaskId(r, tasks.cfg), r, e)
           stored == EncryptTaskSecrets(task, tasks.cfg)
       IN /\ DecryptTaskSecrets(stored) = task
          /\ \A k \in DOMAIN task \cap NON_SECRET_PROPERTIES :
               k \in DOMAIN stored /\ stored[k] = task[k]

\* passes p and q ran for one sync id from the same read of its record, and
\* each applied its page and had its syncRecords.update() settle
BothWrote(p, q) ==
  /\ p # q
  /\ pass[p].syncId = pass[q].syncId
  /\ pass[p].syncRecord.present /\ pass[q].syncRecord.present
  /\ pass[p].syncRecord.sequence = pass[q].syncRecord.sequence
  /\ \A r \in {p, q} : \/ pass[r].pc = "returned"
                       \/ pass[r].pc = "thrown"
                            /\ pass[r].thrown = "InvalidStateError"

\* C34: concurrent passes on one sync id. When two passes that read the sync
\* record at the same sequence s have both applied their page, exactly one of
\* them returned and the other threw the conflict error; the stored record
\* has sequence s + 1 and the cursor of the pass that returned.
C34_ConcurrentPasses ==
  \A p, q \in TwoCallers :
    BothWrote(p, q) =>
      /\ (pass[p].pc = "returned") # (pass[q].pc = "returned")
      /\ syncs[pass[p].syncId].sequence = pass[p].syncRecord.sequence + 1
      /\ \A r \in {p, q} :
           pass[r].pc = "returned" => syncs[pass[r].syncId].cursor = pass[r].cursor

C34_Witness ==
  \E p, q \in TwoCallers :
    /\ BothWrote(p, q)
    /\ pass[p].pc = "returned" /\ pass[q].pc = "thrown"
    /\ pass[p].cursor # pass[q].cursor
    /\ AllDone(pass[p]) /\ AllDone(pass[q])
    /\ pass[p].units # <<>> /\ pass[q].units # <<>>

\* C35 as stated: drain before settle. Once a pass that queued its page has
\* issued the write of the progress record, returned or thrown, none of its
\* units is suspended at a fetch, a remote write or a reference update.
C35_DrainBeforeSettle ==
  \A p \in Callers :
    (pass[p].pc \in {"syncUpdate", "returned", "thrown"}
       /\ pass[p].units # <<>>)
      => \A i \in Units(p) : ~InFlight(pass[p].units[i])

\* C36: termination. While the queue of a pass runs, some unit of the pass is
\* suspended at a call that will return; no unit is attempted more than
\* twice; and every pass that was called eventually returns or throws.
C36_Termination ==
  /\ [](\A p \in Callers :
          /\ pass[p].pc = "queue" =>
               \E i \in Units(p) : /\ pass[p].units[i].job = "running"
                                    /\ InFlight(pass[p].units[i])
          /\ \A i \in Units(p) : pass[p].units[i].att <= 2)
  /\ \A p \in Callers :
       Active(pass[p]) ~> pass[p].pc \in {"returned", "thrown"}

\* a pass aborted while a unit was waiting in its queue threw after a unit
\* of it had failed its first attempt
C36_Witness ==
  \E p \in Callers :
    /\ pass[p].pc = "thrown"
    /\ pass[p].abortedAt = "queue"
    /\ \E i \in Units(p) : pass[p].units[i].st = "idle"
    /\ \E i \in Units(p) : pass[p].units[i].firstFail = "op"

\* C37: independence of sync identities. A step changes the progress record
\* of a sync id only if it is a step of a running pass for that id; the
\* record a pass reads is the one of its own id.
C37_Independence ==
  [][/\ \A s \in TwoSyncIds :
          syncs'[s] # syncs[s] =>
            \E p \in Callers : Active(pass[p]) /\ pass[p].syncId = s
     /\ \A p \in Callers :
          (pass[p].pc \in {"find", "create"} /\ pass'[p].pc = "page") =>
            pass'[p].syncRecord = syncs'[pass[p].syncId]]_vars

\* a pass for s1 created the record of s1 and returned while s2 keeps the
\* record and the cursor an earlier pass for s2 stored
C37_Witness ==
  \E p \in Callers :
    /\ pass[p].syncId = "s1"
    /\ pass[p].pc = "returned"
    /\ pass[p].syncRecord.sequence = 0
    /\ syncs["s2"].present /\ syncs["s2"].sequence = 1
    /\ syncs["s2"].cursor # syncs["s1"].cursor

\* the units of pass p for credential c whose _updateStatus() resolved
DoneFor(p, c) ==
  {i \in Units(p) : /\ pass[p].updates[i].credentialId = c
                    /\ pass[p].units[i].st = "done"}

\* C38: no lost reference updates within a page. The stored sequence of a
\* reference is its sequence before the pass (0) plus the number of units
\* for it that ended in success; no more jobs are counted than units ended
\* in success; a pass that returned stored one update per unit; a unit
\* reported as failed made two attempts.
C38_NoLostUpdates ==
  \A p \in Callers : \A c \in Inserted :
    /\ refs[c].sequence = Cardinality(DoneFor(p, c))
    /\ pass[p].updateCount <= Cardinality(DoneFor(p, c))
    /\ pass[p].pc = "returned" =>
         Cardinality(DoneFor(p, c)) = Len(pass[p].units)
    /\ \A i \in Units(p) :
         pass[p].units[i].st = "failed" => pass[p].units[i].att = 2

\* two units for one credential ran concurrently, no call failed, one lost
\* the sequence race and succeeded on its retry, and the pass returned
C38_Witness ==
  \E p \in Callers :
    /\ pass[p].pc = "returned"
    /\ pass[p].faults = 0
    /\ Len(pass[p].units) = 2
    /\ \E i \in Units(p) : pass[p].units[i].firstFail = "op"
    /\ refs["a"].sequence = 2

\* every vcReferences call made so far has completed
Quiescent ==
  /\ \A k \in Clients : coll.ops[k].kind = "idle"
  /\ \A j \in 1..MaxRefCalls : coll.promises[j].st # "pending"

\* an update() for credentialId c has been called and has not completed
UpdateInFlight(c) ==
  \E k \in Clients :
    coll.ops[k].kind = "update" /\ coll.ops[k].credentialId = c

\* client k calls get() with the cache in this step
CachedGetStarts(k) ==
  /\ coll.ops[k].kind = "idle"
  /\ coll'.ops[k].kind = "get"
  /\ coll'.ops[k].useCache

\* C39: cache coherence under interleaving. Once every get() and update()
\* has completed, the cache holds for a credentialId no entry or the stored
\* record; and a get() with the cache that is called while no update() for
\* its credentialId is in flight is given a promise that is still to read
\* the collection or that resolved with the stored record.
C39_CacheCoherence ==
  /\ [](Quiescent =>
          \A c \in Inserted :
            coll.cache[c] # 0 =>
              /\ coll.promises[coll.cache[c]].st = "resolved"
              /\ \E d \in DocsOf(coll.docs, c) :
                   d.sequence = coll.promises[coll.cache[c]].sequence)
  /\ [][\A k \in Clients :
          (CachedGetStarts(k)
             /\ ~UpdateInFlight(coll'.ops[k].credentialId)) =>
            LET c == coll'.ops[k].credentialId
                pr == coll'.promises[coll'.ops[k].promise]
            IN \/ pr.st = "pending"
               \/ /\ pr.st = "resolved"
                  /\ \E d \in DocsOf(coll.docs, c) :
                       d.sequence = pr.sequence]_vars

\* every call has completed: a get() memoized the record at sequence 0, an
\* update() to sequence 1 returned true, and a later get() with the cache
\* memoized the record at sequence 1
C39_Witness ==
  /\ Quiescent
  /\ coll.calls = 4
  /\ \E c \in Inserted :
       /\ coll.confirmed[c] = 1
       /\ coll.cache[c] = 4
       /\ coll.promises[4].sequence = 1
       /\ \E j \in 1..3 : /\ coll.promises[j].st = "resolved"
                          /\ coll.promises[j].sequence = 0

====
